---- MODULE Spec2Model ----
(***************************************************************************)
(* Verification model of QuantumC: the arithmetic circuit backend          *)
(* (q_arithmetics.py, q_arithmetics_controlled.py), the constraint         *)
(* enforcement pass (ssa_dag.py) and the quantum translator                *)
(* (quantum_translate.py).                                                 *)
(*                                                                         *)
(* Circuits are modelled on computational-basis inputs.  A register is an  *)
(* unsigned integer (bit 0 = LSB).  A register under QFT(do_swaps=False)   *)
(* is the vector of its qubits' phases, counted in units of 2*pi / 2^n:    *)
(* qubit i of QFT|x> carries phase x * 2^(n-1-i) (mod 2^n).  A phase gate  *)
(* of angle 2*pi / 2^e adds 2^(n-e) units.  The inverse QFT returns x when *)
(* the phases are those of QFT|x>, and a superposition otherwise.          *)
(***************************************************************************)
EXTENDS Integers, Sequences, FiniteSets, TLC

VARIABLES
    circuit, \* the QuantumCircuit under construction: its registers, a raised error
    bpc,    \* position of the backend test run: "start", "ready", "done"
    bcall,  \* the primitive called, its inputs and the registers it returned
    number_of_bits  \* q_arithmetics.NUMBER_OF_BITS, the global set_number_of_bits sets

VARIABLES
    orig_ops,       \* the block handed to enforce_constraints
    epc,            \* "build", "enforce", "done"
    pass_no,        \* 1: the pass on the built module, 2: the pass on its own output
    loop_idx,       \* idx, the index of the main loop of enforce_constraints
    new_block,      \* the operations added to the new block so far
    new_ops_map,    \* original operation (its index) -> new operation (its index)
    available_ops,  \* (reg_id, reg_version) -> new operation (its index)
    next_reg,       \* the counter of alloc_reg
    first_in,       \* the module the first pass was given
    first_out       \* the module the first pass returned

VARIABLES
    module,         \* the classical function handed to QuantumTranslator: its blocks
    tpc,            \* "translate", "done", "error"
    frames,         \* the loops over block.ops in progress, innermost last
    current_block,  \* the quantum operations emitted so far
    emitted_under,  \* for each emitted operation, control_stack when it was emitted
    control_stack,  \* self.control_stack
    t_next_reg,     \* self.next_reg
    val_info,       \* self.val_info: classical value -> ValueInfo(reg, version, expr)
    t_reg_version,  \* self.reg_version
    reg_ssa,        \* self.reg_ssa: register -> quantum value
    t_err,          \* the exception that ended the translation, or "none"
    later_funcs,    \* the functions of self.module.ops after the one being translated
    q_module        \* self.q_module: the translated functions added so far

VARIABLES
    dag             \* the dependency graph built of the block: its kind, nodes, edges

VARIABLES
    program,        \* the FunctionDecl handed to MLIRGenerator.generate_function: its body
    region,         \* self.function_region: the blocks of the generated function
    xpc,            \* "generate", "run", "returned", "stuck"
    x_block,        \* the block the run of the generated function is in
    x_pos,          \* the position in that block of the next operation to run
    x_env,          \* the values of the results computed in the run
    trace           \* the operations run so far

bvars == <<circuit, bpc, bcall, number_of_bits>>
tvars == <<module, tpc, frames, current_block, emitted_under, control_stack, t_next_reg,
           val_info, t_reg_version, reg_ssa, t_err, later_funcs, q_module>>
evars == <<orig_ops, epc, pass_no, loop_idx, new_block, new_ops_map, available_ops,
           next_reg, first_in, first_out>>
gvars == <<dag>>
lvars == <<program, region, xpc, x_block, x_pos, x_env, trace>>
vars == <<bvars, evars, tvars, gvars, lvars>>

(***************************************************************************)
(* Bounds                                                                  *)
(***************************************************************************)
\* width of every register in the explored circuits (set_number_of_bits(n))
NBits == 3

\* the largest width handed to set_number_of_bits in the configuration runs
MaxBits == 5

(***************************************************************************)
(* Two's complement helpers                                                *)
(***************************************************************************)
NUMBER_OF_BITS == number_of_bits

Modulus == 2 ^ NUMBER_OF_BITS

MIN_VAL == -(2 ^ (NUMBER_OF_BITS - 1))

MAX_VAL == 2 ^ (NUMBER_OF_BITS - 1) - 1

SignedRange == MIN_VAL .. MAX_VAL

\* value of a measured register that was not left in a basis state
Superposed == -1

\* int_to_twos_complement: the bits of value, taken as an unsigned number
IntToTwosComplement(value) == value % Modulus

\* decoding of a measured bit string of w bits (simulate, _twos)
Decode(x, w) == IF x = Superposed THEN Superposed - Modulus
                ELSE IF w > 1 /\ x >= 2 ^ (w - 1) THEN x - 2 ^ w ELSE x

\* the expected result of the tests: value wrapped to n signed bits
Twos(value) == LET u == value % Modulus
               IN IF u >= 2 ^ (NUMBER_OF_BITS - 1) THEN u - Modulus ELSE u

Bit(x, i) == (x \div (2 ^ i)) % 2

SetBit(x, i, b) == x - Bit(x, i) * (2 ^ i) + b * (2 ^ i)

\* X on every qubit of a w-bit register
FlipAll(x, w) == (2 ^ w) - 1 - x

RECURSIVE SumOver(_, _, _)
SumOver(f, lo, hi) == IF hi < lo THEN 0 ELSE f[hi] + SumOver(f, lo, hi - 1)

(***************************************************************************)
(* Phase model of the QFT arithmetic                                       *)
(***************************************************************************)
Qubits == 0 .. (NUMBER_OF_BITS - 1)

\* units of 2*pi/2^n carried by a phase gate of angle 2*pi / 2^e
Unit(e) == IF e <= 0 THEN 0 ELSE 2 ^ (NUMBER_OF_BITS - e)

QFT(x) == [i \in Qubits |-> (x * (2 ^ (NUMBER_OF_BITS - 1 - i))) % Modulus]

IQFT(ph) == LET x == ph[NUMBER_OF_BITS - 1]
            IN IF x # Superposed /\ \A i \in Qubits : ph[i] = QFT(x)[i]
               THEN x ELSE Superposed

\* the exponent of the rotation from source bit j into target bit i
AddExponent(i, j) == i - j + 1

\* for i, for j <= i: cp(sgn * 2*pi / 2^(i-j+1), src[j], tgt[i]), all gated on ctl
PhaseAddReg(ph, src, sgn, ctl) ==
    [i \in Qubits |->
        (ph[i] + sgn * ctl *
            SumOver([j \in Qubits |-> Bit(src, j) * Unit(AddExponent(i, j))], 0, i))
        % Modulus]

\* for j: p(b_val * 2*pi / 2^(j+1), tgt[j]), gated on ctl
PhaseAddImm(ph, b, ctl) ==
    LET b_int == IntToTwosComplement(b)
        b_val == IF b >= 0 THEN b_int ELSE b_int - Modulus
    IN [j \in Qubits |->
          (ph[j] + ctl * b_val * (2 ^ (NUMBER_OF_BITS - 1 - j))) % Modulus]

Xor(x, y) == (x + y) % 2

\* QFT, rotations from src (sign sgn, gated on ctl), inverse QFT, on one register
AddRegValue(x, src, sgn, ctl) ==
    IF x = Superposed \/ src = Superposed \/ ctl = Superposed THEN Superposed
    ELSE IQFT(PhaseAddReg(QFT(x), src, sgn, ctl))

\* QFT, rotations by the classical b (gated on ctl), inverse QFT, on one register
AddImmValue(x, b, ctl) ==
    IF x = Superposed \/ ctl = Superposed THEN Superposed
    ELSE IQFT(PhaseAddImm(QFT(x), b, ctl))

(***************************************************************************)
(* The circuit: its registers by name.  A generated name f"{base}{idx}" is *)
(* the pair <<base, idx>>; a name given by the caller has index NoIdx.     *)
(***************************************************************************)
NoIdx == -1

EmptyCircuit == [regs |-> << >>, err |-> "none"]

Names(qc) == DOMAIN qc.regs

V(qc, r) == qc.regs[r].v

Put(qc, r, x) == [qc EXCEPT !.regs[r].v = x]

\* QuantumRegister(w, name); qc.add_register: a name already present raises
AddRegister(qc, name, w) ==
    IF qc.err # "none" THEN qc
    ELSE IF name \in Names(qc) THEN [qc EXCEPT !.err = "CircuitError"]
    ELSE [qc EXCEPT !.regs = (name :> [w |-> w, v |-> 0]) @@ qc.regs]

\* idx = 0; while any f"{base}{idx}" in existing: idx += 1
FreshIdx(qc, bases) ==
    LET free(k) == \A b \in bases : <<b, k>> \notin Names(qc)
    IN CHOOSE k \in 0 .. Cardinality(Names(qc)) :
          free(k) /\ \A m \in 0 .. (k - 1) : ~free(m)

initialize_variable(qc, value, register_name) ==
    IF value < MIN_VAL \/ value > MAX_VAL THEN [qc EXCEPT !.err = "ValueError"]
    ELSE LET q1 == AddRegister(qc, register_name, NUMBER_OF_BITS)
         IN IF q1.err # "none" THEN q1
            ELSE Put(q1, register_name, IntToTwosComplement(value))

addi_in_place(qc, qreg, b) == Put(qc, qreg, AddImmValue(V(qc, qreg), b, 1))

invert(qc, qreg) ==
    LET flipped == IF V(qc, qreg) = Superposed THEN Superposed
                   ELSE FlipAll(V(qc, qreg), NUMBER_OF_BITS)
    IN addi_in_place(Put(qc, qreg, flipped), qreg, 1)

\* the value left in a fresh register by QFT, rotations from a and b, inverse QFT
AddValue(a, b, ctl) == AddRegValue(AddRegValue(0, a, 1, ctl), b, 1, ctl)

add(qc, a_reg, b_reg) ==
    LET s_reg == <<"sum", FreshIdx(qc, {"sum"})>>
        q1 == AddRegister(qc, s_reg, NUMBER_OF_BITS)
    IN [qc  |-> Put(q1, s_reg, AddValue(V(qc, a_reg), V(qc, b_reg), 1)),
        out |-> s_reg]

addi(qc, a_reg, b) ==
    LET s_reg == <<"sum", FreshIdx(qc, {"sum"})>>
        q1 == AddRegister(qc, s_reg, NUMBER_OF_BITS)
    IN [qc  |-> Put(q1, s_reg, AddRegValue(AddImmValue(0, b, 1), V(qc, a_reg), 1, 1)),
        out |-> s_reg]

sub(qc, a_reg, b_reg) ==
    LET q1 == invert(qc, b_reg)
        r == add(q1, a_reg, b_reg)
    IN [qc |-> invert(r.qc, b_reg), out |-> r.out]

subi(qc, qreg, b) == addi(qc, qreg, -b)

\* a rotation of twice the angle
MulExponentDoubled(i, j, k) == i + j + k - 2 * NUMBER_OF_BITS - 1

\* the exponent of the doubly controlled rotation of mul
MulExponent(i, j, k) == i + j + k - 2 * NUMBER_OF_BITS

\* QFT; for j, i, k in 1..n: phase 2*pi / 2^(i+j+k-2n) on out[k-1], controlled
\* on a[n-j] and b[n-i] (and on ctl); inverse QFT
MulValue(a, b, ctl) ==
    IF a = Superposed \/ b = Superposed THEN Superposed
    ELSE LET n == NUMBER_OF_BITS
             inner(j, k) == SumOver([i \in 1 .. n |->
                                Bit(a, n - j) * Bit(b, n - i) * Unit(MulExponent(i, j, k))], 1, n)
             ph == [q \in Qubits |->
                      (QFT(0)[q] + ctl * SumOver([j \in 1 .. n |-> inner(j, q + 1)], 1, n))
                      % Modulus]
         IN IQFT(ph)

mul(qc, a_reg, b_reg) ==
    LET out_reg == <<"prod", FreshIdx(qc, {"prod"})>>
        q1 == AddRegister(qc, out_reg, NUMBER_OF_BITS)
    IN [qc  |-> Put(q1, out_reg, MulValue(V(qc, a_reg), V(qc, b_reg), 1)),
        out |-> out_reg]

muli(qc, a_reg, c) ==
    LET n == NUMBER_OF_BITS
        out_reg == <<"prod", FreshIdx(qc, {"prod"})>>
        q1 == AddRegister(qc, out_reg, n)
        abs_c == IF c < 0 THEN -c ELSE c
        a == V(qc, a_reg)
        \* angle = (2*pi * abs_c * 2^j / 2^(k+1)) % (2*pi), controlled on a[j]
        ph == [k \in Qubits |->
                 SumOver([j \in Qubits |->
                     Bit(a, j) * ((abs_c * (2 ^ j) * (2 ^ (n - 1 - k))) % Modulus)], 0, n - 1)
                 % Modulus]
        q2 == Put(q1, out_reg, IF a = Superposed THEN Superposed ELSE IQFT(ph))
    IN [qc |-> IF c < 0 THEN invert(q2, out_reg) ELSE q2, out |-> out_reg]

_controlled_addi_in_place(qc, qreg, value, control) ==
    Put(qc, qreg, AddImmValue(V(qc, qreg), value, V(qc, control)))

_sub_in_place(qc, a_reg, b_reg) ==
    Put(qc, a_reg, AddRegValue(V(qc, a_reg), V(qc, b_reg), -1, 1))

\* a restore step that adds nothing back
_controlled_add_in_place_skipped(qc, a_reg, b_reg, control) == qc

_controlled_add_in_place(qc, a_reg, b_reg, control) ==
    Put(qc, a_reg, AddRegValue(V(qc, a_reg), V(qc, b_reg), 1, V(qc, control)))

\* for qubit in qreg: cx(control, qubit); then the controlled +1
_controlled_invert_in_place(qc, qreg, control) ==
    LET x == V(qc, qreg)
        flipped == IF x = Superposed THEN Superposed
                   ELSE IF V(qc, control) = 1 THEN FlipAll(x, NUMBER_OF_BITS) ELSE x
    IN _controlled_addi_in_place(Put(qc, qreg, flipped), qreg, 1, control)

\* a conversion that records the sign and leaves the register as it is
twos_to_sign_magnitude_kept(qc, qreg) ==
    LET sign == <<"sign", FreshIdx(qc, {"sign"})>>
        q1 == AddRegister(qc, sign, 1)
    IN [qc |-> Put(q1, sign, Bit(V(qc, qreg), NUMBER_OF_BITS - 1)), out |-> sign]

twos_to_sign_magnitude(qc, qreg) ==
    LET sign == <<"sign", FreshIdx(qc, {"sign"})>>
        q1 == AddRegister(qc, sign, 1)
        q2 == Put(q1, sign, Bit(V(qc, qreg), NUMBER_OF_BITS - 1))
    IN [qc |-> _controlled_invert_in_place(q2, qreg, sign), out |-> sign]

sign_magnitude_to_twos(qc, mag_reg, sign_reg) ==
    _controlled_invert_in_place(qc, mag_reg, sign_reg)

\* qc.x(t[i])
X(qc, t, i) == Put(qc, t, SetBit(V(qc, t), i, Xor(Bit(V(qc, t), i), 1)))

\* qc.cx(c[ci], t[i])
Cx(qc, c, ci, t, i) ==
    Put(qc, t, SetBit(V(qc, t), i, Xor(Bit(V(qc, t), i), Bit(V(qc, c), ci))))

\* qc.ccx(c[ci], d[di], t[i])
Ccx(qc, c, ci, d, di, t, i) ==
    Put(qc, t, SetBit(V(qc, t), i,
                      Xor(Bit(V(qc, t), i), Bit(V(qc, c), ci) * Bit(V(qc, d), di))))

\* qc.swap(r[i], t[j])
Swap(qc, r, i, t, j) ==
    IF r = t THEN Put(qc, r, SetBit(SetBit(V(qc, r), i, Bit(V(qc, r), j)), j, Bit(V(qc, r), i)))
    ELSE Put(Put(qc, r, SetBit(V(qc, r), i, Bit(V(qc, t), j))),
             t, SetBit(V(qc, t), j, Bit(V(qc, r), i)))

\* qc.cswap(c[0], r[i], t[j])
Cswap(qc, c, r, i, t, j) == IF V(qc, c) = 1 THEN Swap(qc, r, i, t, j) ELSE qc

\* for j in reversed(range(1, n)): qc.swap(rem[j], rem[j - 1])
RotateLeft(qc, rem) ==
    Put(qc, rem, ((V(qc, rem) * 2) % Modulus) + Bit(V(qc, rem), NUMBER_OF_BITS - 1))

\* for j in reversed(range(1, n)): qc.cswap(control, rem[j], rem[j - 1])
CRotateLeft(qc, control, rem) == IF V(qc, control) = 1 THEN RotateLeft(qc, rem) ELSE qc

\* one round of the restoring division, for quotient bit i
DivuRound(qc, a_reg, b_reg, qout, rem, sign, i) ==
    LET n == NUMBER_OF_BITS
        \* the swaps along rem, then swap(rem[0], a_reg[i])
        q1 == Swap(RotateLeft(qc, rem), rem, 0, a_reg, i)
        q2 == _sub_in_place(q1, rem, b_reg)
        \* cx(rem[n-1], sign)
        q3 == Cx(q2, rem, n - 1, sign, 0)
        q4 == _controlled_add_in_place(q3, rem, b_reg, sign)
        \* x(qout[i]); cx(sign, qout[i])
        q5 == Cx(X(q4, qout, i), sign, 0, qout, i)
        \* cx(qout[i], sign); x(sign)
        q6 == X(Cx(q5, qout, i, sign, 0), sign, 0)
    IN q6

RECURSIVE DivuLoop(_, _, _, _, _, _, _)
\* for i in reversed(range(n_output_bits)), from i down to 0; an exception
\* raised in a round ends the loop
DivuLoop(qc, a_reg, b_reg, qout, rem, sign, i) ==
    IF i < 0 \/ qc.err # "none" THEN qc
    ELSE DivuLoop(DivuRound(qc, a_reg, b_reg, qout, rem, sign, i),
                  a_reg, b_reg, qout, rem, sign, i - 1)

divu(qc, a_reg, b_reg) ==
    LET n == NUMBER_OF_BITS
        idx == FreshIdx(qc, {"quotu", "rem", "sign"})
        qout == <<"quotu", idx>>
        rem == <<"rem", idx>>
        sign == <<"sign", idx>>
        q1 == AddRegister(AddRegister(AddRegister(qc, qout, n), rem, n), sign, 1)
    IN [qc |-> DivuLoop(q1, a_reg, b_reg, qout, rem, sign, n - 1),
        out |-> qout, rem |-> rem]

\* the end of div: the operands are restored from sign and magnitude
div_restore(qc, a_reg, b_reg, sign_a, sign_b, qout, rem) ==
    LET n == NUMBER_OF_BITS
        q6 == sign_magnitude_to_twos(qc, a_reg, sign_a)
        q7 == Cx(q6, a_reg, n - 1, sign_a, 0)
        q8 == sign_magnitude_to_twos(q7, b_reg, sign_b)
        q9 == Cx(q8, b_reg, n - 1, sign_b, 0)
    IN [qc |-> IF qc.err # "none" THEN qc ELSE q9, out |-> qout, rem |-> rem]

\* div from qc.add_register(sign_q) on: the sign of the quotient, then the
\* conversions of the quotient and the remainder back
div_convert_back(qc, a_reg, b_reg, sign_a, sign_b, qout, rem, sign_q) ==
    LET n == NUMBER_OF_BITS
        \* cx(sign_a, sign_q); cx(sign_b, sign_q)
        q2 == Cx(Cx(qc, sign_a, 0, sign_q, 0), sign_b, 0, sign_q, 0)
        q3 == sign_magnitude_to_twos(q2, qout, sign_q)
        q4 == Cx(q3, qout, n - 1, sign_q, 0)
        q5 == sign_magnitude_to_twos(q4, rem, sign_a)
    IN div_restore(q5, a_reg, b_reg, sign_a, sign_b, qout, rem)

\* div after qout, rem = divu(...): sign_q is named and added; an exception
\* raised by divu leaves div at once
div_after_divu(d, a_reg, b_reg, sign_a, sign_b) ==
    IF d.qc.err # "none" THEN d
    ELSE div_convert_back(AddRegister(d.qc, <<"signq", FreshIdx(d.qc, {"signq"})>>, 1),
                          a_reg, b_reg, sign_a, sign_b, d.out, d.rem,
                          <<"signq", FreshIdx(d.qc, {"signq"})>>)

\* div after sign_b = twos_to_sign_magnitude(qc, b_reg)
div_after_sign_b(sb, a_reg, b_reg, sign_a) ==
    div_after_divu(divu(sb.qc, a_reg, b_reg), a_reg, b_reg, sign_a, sb.out)

\* div after sign_a = twos_to_sign_magnitude(qc, a_reg)
div_after_sign_a(sa, a_reg, b_reg) ==
    div_after_sign_b(twos_to_sign_magnitude(sa.qc, b_reg), a_reg, b_reg, sa.out)

div(qc, a_reg, b_reg) ==
    div_after_sign_a(twos_to_sign_magnitude(qc, a_reg), a_reg, b_reg)

(***************************************************************************)
(* The comparison primitives.  Each returns one qubit, here the one-qubit  *)
(* register that holds it.                                                 *)
(***************************************************************************)
\* for i in range(n): cx(src[i], tgt[i])
CxEach(qc, src, tgt) ==
    Put(qc, tgt,
        SumOver([i \in Qubits |->
                    Xor(Bit(V(qc, tgt), i), Bit(V(qc, src), i)) * (2 ^ i)],
                0, NUMBER_OF_BITS - 1))

\* for i in range(n): cx(a_reg[i], xor_reg[i]); cx(b_reg[i], xor_reg[i])
XorInto(qc, a_reg, b_reg, xor_reg) ==
    CxEach(CxEach(qc, a_reg, xor_reg), b_reg, xor_reg)

\* x on every qubit of xor_reg; x(out); mcx(xor_reg, out); x(out); x on every
\* qubit of xor_reg again
FlagAllZero(qc, xor_reg, out) ==
    LET all_ones == IF FlipAll(V(qc, xor_reg), NUMBER_OF_BITS) = Modulus - 1
                    THEN 1 ELSE 0
    IN Put(qc, out, Xor(Xor(Xor(V(qc, out), 1), all_ones), 1))

equal(qc, a_reg, b_reg) ==
    LET xor_reg == <<"xor", NoIdx>>
        out == <<"eq", NoIdx>>
        q1 == AddRegister(qc, xor_reg, NUMBER_OF_BITS)
        q2 == IF q1.err # "none" THEN q1
              ELSE AddRegister(XorInto(q1, a_reg, b_reg, xor_reg), out, 1)
    IN [qc |-> IF q2.err # "none" THEN q2 ELSE FlagAllZero(q2, xor_reg, out),
        out |-> out]

\* flag = QuantumRegister(1, name); qc.add_register(flag); qc.x(flag[0]);
\* qc.cx(c.out, flag[0]): the negation of the qubit a comparison returned
Negated(c, flag) ==
    IF c.qc.err # "none" THEN [qc |-> c.qc, out |-> flag]
    ELSE LET q1 == AddRegister(c.qc, flag, 1)
         IN [qc |-> IF q1.err # "none" THEN q1 ELSE Cx(X(q1, flag, 0), c.out, 0, flag, 0),
             out |-> flag]

not_equal(qc, a_reg, b_reg) == Negated(equal(qc, a_reg, b_reg), <<"neq", NoIdx>>)

\* less_than from diff = add(qc, a_reg, tmp_b) on
less_than_sign(d, tmp_b) ==
    LET out == <<"lt", FreshIdx(d.qc, {"lt"})>>
        q1 == AddRegister(d.qc, out, 1)
        \* cx(diff[n - 1], out[0]); invert(qc, tmp_b)
        q2 == invert(Cx(q1, d.out, NUMBER_OF_BITS - 1, out, 0), tmp_b)
    IN [qc |-> q2, out |-> out]

less_than(qc, a_reg, b_reg) ==
    LET tmp_b == <<"bneg", FreshIdx(qc, {"bneg"})>>
        q1 == AddRegister(qc, tmp_b, NUMBER_OF_BITS)
        \* for i in range(n): cx(b_reg[i], tmp_b[i]); invert(qc, tmp_b)
        q2 == invert(CxEach(q1, b_reg, tmp_b), tmp_b)
    IN less_than_sign(add(q2, a_reg, tmp_b), tmp_b)

greater_than(qc, a_reg, b_reg) == less_than(qc, b_reg, a_reg)

less_equal(qc, a_reg, b_reg) == Negated(greater_than(qc, a_reg, b_reg), <<"le", NoIdx>>)

greater_equal(qc, a_reg, b_reg) ==
    LET lt == less_than(qc, a_reg, b_reg)
    IN Negated(lt, <<"ge", FreshIdx(lt.qc, {"ge"})>>)

(***************************************************************************)
(* Controlled primitives of q_arithmetics_controlled.py.  The module keeps *)
(* its own NUMBER_OF_BITS, which set_number_of_bits does not change, and   *)
(* its own int_to_twos_complement.                                         *)
(***************************************************************************)
CTRL_NUMBER_OF_BITS == 4

\* b_val of addi_controlled and addi_in_place_controlled for n-qubit registers
CtrlImmValue(b) ==
    LET b_int == b % (2 ^ CTRL_NUMBER_OF_BITS)
    IN IF b >= 0 THEN b_int ELSE b_int - Modulus

\* for j: cp(b_val * 2*pi / 2^(j+1), control, qreg[j]) between QFT and inverse QFT
CtrlAddImmValue(x, b, ctl) ==
    IF x = Superposed THEN Superposed
    ELSE IQFT([j \in Qubits |->
            (QFT(x)[j] + ctl * CtrlImmValue(b) * (2 ^ (NUMBER_OF_BITS - 1 - j))) % Modulus])

add_controlled(qc, a_reg, b_reg, control) ==
    LET s_reg == <<"sum", FreshIdx(qc, {"sum"})>>
        q1 == AddRegister(qc, s_reg, NUMBER_OF_BITS)
    IN [qc  |-> Put(q1, s_reg, AddValue(V(qc, a_reg), V(qc, b_reg), V(qc, control))),
        out |-> s_reg]

addi_in_place_controlled(qc, qreg, b, control) ==
    Put(qc, qreg, CtrlAddImmValue(V(qc, qreg), b, V(qc, control)))

addi_controlled(qc, a_reg, b, control) ==
    LET s_reg == <<"sum", FreshIdx(qc, {"sum"})>>
        q1 == AddRegister(qc, s_reg, NUMBER_OF_BITS)
        c == V(qc, control)
    IN [qc  |-> Put(q1, s_reg, AddRegValue(CtrlAddImmValue(0, b, c), V(qc, a_reg), 1, c)),
        out |-> s_reg]

\* X on every qubit of a register when c is 1
FlipIf(x, c) == IF x = Superposed THEN Superposed
                ELSE IF c = 1 THEN FlipAll(x, NUMBER_OF_BITS) ELSE x

\* for qubit in qreg: qc.cx(control, qubit)
CxAll(qc, control, qreg) == Put(qc, qreg, FlipIf(V(qc, qreg), V(qc, control)))

\* for qubit in qreg: qc.ccx(control, sign_reg[0], qubit)
CcxAll(qc, control, sign_reg, qreg) ==
    Put(qc, qreg, FlipIf(V(qc, qreg), V(qc, control) * V(qc, sign_reg)))

invert_controlled(qc, qreg, control) ==
    addi_in_place_controlled(CxAll(qc, control, qreg), qreg, 1, control)

sub_controlled(qc, a_reg, b_reg, control) ==
    LET q1 == invert_controlled(qc, b_reg, control)
        r == add_controlled(q1, a_reg, b_reg, control)
    IN [qc |-> invert_controlled(r.qc, b_reg, control), out |-> r.out]

subi_controlled(qc, a_reg, b, control) == addi_controlled(qc, a_reg, -b, control)

mul_controlled(qc, a_reg, b_reg, control) ==
    LET out_reg == <<"prod", FreshIdx(qc, {"prod"})>>
        q1 == AddRegister(qc, out_reg, NUMBER_OF_BITS)
    IN [qc  |-> Put(q1, out_reg, MulValue(V(qc, a_reg), V(qc, b_reg), V(qc, control))),
        out |-> out_reg]

muli_controlled(qc, a_reg, c, control) ==
    LET n == NUMBER_OF_BITS
        out_reg == <<"prod", FreshIdx(qc, {"prod"})>>
        q1 == AddRegister(qc, out_reg, n)
        abs_c == IF c < 0 THEN -c ELSE c
        a == V(qc, a_reg)
        ph == [k \in Qubits |->
                 (V(qc, control) * SumOver([j \in Qubits |->
                     Bit(a, j) * ((abs_c * (2 ^ j) * (2 ^ (n - 1 - k))) % Modulus)], 0, n - 1))
                 % Modulus]
        q2 == Put(q1, out_reg, IF a = Superposed THEN Superposed ELSE IQFT(ph))
    IN [qc |-> IF c < 0 THEN invert_controlled(q2, out_reg, control) ELSE q2,
        out |-> out_reg]

\* q_arithmetics_controlled.py binds neither _sub_in_place nor
\* _controlled_add_in_place ("from q_arithmetics import *" skips the names
\* that start with an underscore): the first round of the loop raises
\* NameError after its swaps.  The control argument is not used.
divu_controlled(qc, a_reg, b_reg, control) ==
    LET n == NUMBER_OF_BITS
        idx == FreshIdx(qc, {"quotu", "rem", "sign"})
        qout == <<"quotu", idx>>
        rem == <<"rem", idx>>
        sign == <<"sign", idx>>
        q1 == AddRegister(AddRegister(AddRegister(qc, qout, n), rem, n), sign, 1)
        q2 == Swap(RotateLeft(q1, rem), rem, 0, a_reg, n - 1)
    IN [qc |-> [q2 EXCEPT !.err = "NameError"], out |-> qout, rem |-> rem]

div_controlled(qc, a_reg, b_reg, control) ==
    LET sa == twos_to_sign_magnitude(qc, a_reg)
        sb == twos_to_sign_magnitude(sa.qc, b_reg)
    IN divu_controlled(sb.qc, a_reg, b_reg, control)

divi_controlled(qc, a_reg, divisor, control) ==
    IF divisor = 0 THEN [qc |-> [qc EXCEPT !.err = "ValueError"],
                         out |-> <<"none", NoIdx>>, rem |-> <<"none", NoIdx>>]
    ELSE LET sa == twos_to_sign_magnitude(qc, a_reg)
             abs_d == IF divisor < 0 THEN -divisor ELSE divisor
             q1 == initialize_variable(sa.qc, abs_d, <<"div", NoIdx>>)
         IN IF q1.err # "none"
            THEN [qc |-> q1, out |-> <<"none", NoIdx>>, rem |-> <<"none", NoIdx>>]
            ELSE divu_controlled(q1, a_reg, <<"div", NoIdx>>, control)

(***************************************************************************)
(* step5_quantum_mlir_to_qasm/q_arithmetics_controlled.py: the controlled  *)
(* division that takes the control into account.                           *)
(***************************************************************************)
initialize_variable_controlled(qc, value, control, register_name) ==
    IF value < -(2 ^ (CTRL_NUMBER_OF_BITS - 1)) \/ value > 2 ^ (CTRL_NUMBER_OF_BITS - 1) - 1
    THEN [qc EXCEPT !.err = "ValueError"]
    ELSE LET q1 == AddRegister(qc, register_name, CTRL_NUMBER_OF_BITS)
         IN IF q1.err # "none" THEN q1
            ELSE Put(q1, register_name,
                     IF V(qc, control) = 1 THEN value % (2 ^ CTRL_NUMBER_OF_BITS) ELSE 0)

twos_to_sign_magnitude_s5(qc, qreg) ==
    LET sign_reg == <<"signbit", FreshIdx(qc, {"signbit"})>>
        q1 == AddRegister(qc, sign_reg, 1)
        q2 == Cx(q1, qreg, NUMBER_OF_BITS - 1, sign_reg, 0)
        q3 == CxAll(q2, sign_reg, qreg)
    IN [qc |-> addi_in_place_controlled(q3, qreg, 1, sign_reg), out |-> sign_reg]

\* sign_magnitude_to_twos(qc, qreg, sign_reg, control=control)
sign_magnitude_to_twos_s5(qc, qreg, sign_reg, control) ==
    LET q1 == CcxAll(qc, control, sign_reg, qreg)
        \* the registers of q1 are those of qc
        anc == <<"condtmp", FreshIdx(qc, {"condtmp"})>>
        \* ccx(control, sign_reg[0], anc[0])
        q2 == Ccx(AddRegister(q1, anc, 1), control, 0, sign_reg, 0, anc, 0)
        q3 == addi_in_place_controlled(q2, qreg, 1, anc)
        \* cx(control, anc); cx(sign_reg, anc); ccx(control, sign_reg, anc)
    IN Ccx(Cx(Cx(q3, control, 0, anc, 0), sign_reg, 0, anc, 0),
           control, 0, sign_reg, 0, anc, 0)

_sub_in_place_s5(qc, a_reg, b_reg, control) ==
    Put(qc, a_reg, AddRegValue(V(qc, a_reg), V(qc, b_reg), -1, V(qc, control)))

_controlled_add_in_place_s5(qc, a_reg, b_reg, external_control, control) ==
    Put(qc, a_reg, AddRegValue(V(qc, a_reg), V(qc, b_reg), 1,
                               V(qc, control) * V(qc, external_control)))

DivuRound_s5(qc, a_reg, b_reg, control, qout, rem, sign, i) ==
    LET n == NUMBER_OF_BITS
        \* cswap(control, rem[j], rem[j-1]); cswap(control, rem[0], a_reg[i])
        q1 == Cswap(CRotateLeft(qc, control, rem), control, rem, 0, a_reg, i)
        q2 == _sub_in_place_s5(q1, rem, b_reg, control)
        \* ccx(control, rem[n-1], sign)
        q3 == Ccx(q2, control, 0, rem, n - 1, sign, 0)
        q4 == _controlled_add_in_place_s5(q3, rem, b_reg, sign, control)
        \* cx(control, qout[i]); ccx(control, sign, qout[i])
        q5 == Ccx(Cx(q4, control, 0, qout, i), control, 0, sign, 0, qout, i)
        \* ccx(control, qout[i], sign); cx(control, sign)
        q6 == Cx(Ccx(q5, control, 0, qout, i, sign, 0), control, 0, sign, 0)
    IN q6

RECURSIVE DivuLoop_s5(_, _, _, _, _, _, _, _)
DivuLoop_s5(qc, a_reg, b_reg, control, qout, rem, sign, i) ==
    IF i < 0 \/ qc.err # "none" THEN qc
    ELSE DivuLoop_s5(DivuRound_s5(qc, a_reg, b_reg, control, qout, rem, sign, i),
                     a_reg, b_reg, control, qout, rem, sign, i - 1)

divu_controlled_s5(qc, a_reg, b_reg, control) ==
    LET n == NUMBER_OF_BITS
        idx == FreshIdx(qc, {"quotu", "rem", "sign"})
        qout == <<"quotu", idx>>
        rem == <<"rem", idx>>
        sign == <<"sign", idx>>
        q1 == AddRegister(AddRegister(AddRegister(qc, qout, n), rem, n), sign, 1)
    IN [qc |-> DivuLoop_s5(q1, a_reg, b_reg, control, qout, rem, sign, n - 1),
        out |-> qout, rem |-> rem]

div_restore_b_s5(qc, a_reg, b_reg, control, sign_b, qout, rem) ==
    LET n == NUMBER_OF_BITS
        q8 == sign_magnitude_to_twos_s5(qc, b_reg, sign_b, control)
        q9 == Ccx(q8, control, 0, b_reg, n - 1, sign_b, 0)
    IN [qc |-> IF qc.err # "none" THEN qc ELSE q9, out |-> qout, rem |-> rem]

div_restore_a_s5(qc, a_reg, b_reg, control, sign_a, sign_b, qout, rem) ==
    LET n == NUMBER_OF_BITS
        q6 == sign_magnitude_to_twos_s5(qc, a_reg, sign_a, control)
        q7 == Ccx(q6, control, 0, a_reg, n - 1, sign_a, 0)
    IN IF qc.err # "none" THEN [qc |-> qc, out |-> qout, rem |-> rem]
       ELSE div_restore_b_s5(q7, a_reg, b_reg, control, sign_b, qout, rem)

div_convert_rem_s5(qc, a_reg, b_reg, control, sign_a, sign_b, qout, rem) ==
    IF qc.err # "none" THEN [qc |-> qc, out |-> qout, rem |-> rem]
    ELSE div_restore_a_s5(sign_magnitude_to_twos_s5(qc, rem, sign_a, control),
                          a_reg, b_reg, control, sign_a, sign_b, qout, rem)

div_convert_back_s5(qc, a_reg, b_reg, control, sign_a, sign_b, qout, rem, sign_q) ==
    LET n == NUMBER_OF_BITS
        \* ccx(control, sign_a, sign_q); ccx(control, sign_b, sign_q)
        q2 == Ccx(Ccx(qc, control, 0, sign_a, 0, sign_q, 0),
                  control, 0, sign_b, 0, sign_q, 0)
        q3 == sign_magnitude_to_twos_s5(q2, qout, sign_q, control)
        q4 == Ccx(q3, control, 0, qout, n - 1, sign_q, 0)
    IN div_convert_rem_s5(q4, a_reg, b_reg, control, sign_a, sign_b, qout, rem)

div_after_divu_s5(d, a_reg, b_reg, control, sign_a, sign_b) ==
    IF d.qc.err # "none" THEN d
    ELSE div_convert_back_s5(AddRegister(d.qc, <<"signq", FreshIdx(d.qc, {"signq"})>>, 1),
                             a_reg, b_reg, control, sign_a, sign_b, d.out, d.rem,
                             <<"signq", FreshIdx(d.qc, {"signq"})>>)

div_after_sign_b_s5(sb, a_reg, b_reg, control, sign_a) ==
    div_after_divu_s5(divu_controlled_s5(sb.qc, a_reg, b_reg, control),
                      a_reg, b_reg, control, sign_a, sb.out)

div_after_sign_a_s5(sa, a_reg, b_reg, control) ==
    div_after_sign_b_s5(twos_to_sign_magnitude_s5(sa.qc, b_reg),
                        a_reg, b_reg, control, sa.out)

div_controlled_s5(qc, a_reg, b_reg, control) ==
    div_after_sign_a_s5(twos_to_sign_magnitude_s5(qc, a_reg), a_reg, b_reg, control)

(***************************************************************************)
(* ssa_dag.py: the constraint enforcement pass.  An operation is a record  *)
(* of its name, its operands (the indices of their owners in the block),   *)
(* the properties reg_id (a string attribute, here its decimal digits) and *)
(* reg_version, and its value or immediate.                                *)
(***************************************************************************)
None == -1

Inf == 1000000000

NoAttr == << >>

RECURSIVE Str(_)
Str(n) == IF n < 10 THEN <<n>> ELSE Append(Str(n \div 10), n % 10)

RECURSIVE ParseInt(_)
ParseInt(digits) ==
    IF Len(digits) = 1 THEN digits[1]
    ELSE 10 * ParseInt(SubSeq(digits, 1, Len(digits) - 1)) + digits[Len(digits)]

\* _get_attr_int(op, "reg_id")
RegId(op) == IF op.reg_id = NoAttr THEN None ELSE ParseInt(op.reg_id)

\* a version read one too high
RegVersionBumped(op) == IF op.reg_version = None THEN None ELSE op.reg_version + 1

\* _get_attr_int(op, "reg_version")
RegVersion(op) == op.reg_version

HasReg(op) == RegId(op) # None /\ RegVersion(op) # None

Key(op) == <<RegId(op), RegVersion(op)>>

\* the operation at index i of a block, i counted from 0
OpAt(ops, i) == ops[i + 1]

Indices(ops) == 0 .. Len(ops) - 1

SetMin(S) == CHOOSE x \in S : \A y \in S : x <= y

SetMax(S) == CHOOSE x \in S : \A y \in S : x >= y

Get(dict, key, default) == IF key \in DOMAIN dict THEN dict[key] ELSE default

Without(dict, keys) == [k \in DOMAIN dict \ keys |-> dict[k]]

_compute_next_overwrite(ops) ==
    LET producers == {i \in Indices(ops) : HasReg(OpAt(ops, i))}
        keys == {Key(OpAt(ops, i)) : i \in producers}
    IN [key \in keys |->
          LET at == SetMax({i \in producers : Key(OpAt(ops, i)) = key})
              later == {j \in producers : j > at /\ RegId(OpAt(ops, j)) = key[1]}
          IN IF later = {} THEN Inf ELSE SetMin(later)]

_compute_last_use(ops) ==
    LET reads(key) == {i \in Indices(ops) :
                          \E k \in DOMAIN OpAt(ops, i).operands :
                              LET owner == OpAt(ops, OpAt(ops, i).operands[k])
                              IN HasReg(owner) /\ Key(owner) = key}
        returned(key) == \E i \in reads(key) : OpAt(ops, i).name = "func.return"
        keys == {Key(OpAt(ops, i)) : i \in {j \in Indices(ops) : HasReg(OpAt(ops, j))}}
    IN [key \in {k \in keys : reads(k) # {}} |->
          IF returned(key) THEN Len(ops) ELSE SetMax(reads(key))]

InitNames == {"quantum.init"}

BinaryNames == {"quantum.addi"}

ImmNames == {"quantum.addi_imm"}

\* raise NotImplementedError(op.name)
NotImplemented ==
    [name |-> "NotImplementedError", operands |-> << >>, reg_id |-> NoAttr,
     reg_version |-> None, value |-> 0]

\* a copy that starts the version of its register again
_create_like_unversioned(op, operands, new_rid) ==
    LET rid == IF new_rid = None THEN RegId(op) ELSE new_rid
    IN CASE op.name \in InitNames ->
              [name |-> op.name, operands |-> << >>, reg_id |-> Str(rid),
               reg_version |-> 0, value |-> op.value]
         [] op.name \in BinaryNames ->
              [name |-> op.name, operands |-> <<operands[1], operands[2]>>,
               reg_id |-> Str(rid), reg_version |-> 0, value |-> 0]
         [] op.name \in ImmNames ->
              [name |-> op.name, operands |-> <<operands[1]>>,
               reg_id |-> Str(rid), reg_version |-> 0, value |-> op.value]
         [] op.name = "func.return" ->
              [name |-> op.name,
               operands |-> IF operands # << >> THEN <<operands[1]>> ELSE << >>,
               reg_id |-> NoAttr, reg_version |-> None, value |-> 0]
         [] OTHER -> NotImplemented

_create_like(op, operands, new_rid) ==
    LET rid == IF new_rid = None THEN RegId(op) ELSE new_rid
        ver == RegVersion(op)
    IN CASE op.name \in InitNames ->
              [name |-> op.name, operands |-> << >>, reg_id |-> Str(rid),
               reg_version |-> ver, value |-> op.value]
         [] op.name \in BinaryNames ->
              [name |-> op.name, operands |-> <<operands[1], operands[2]>>,
               reg_id |-> Str(rid), reg_version |-> ver, value |-> 0]
         [] op.name \in ImmNames ->
              [name |-> op.name, operands |-> <<operands[1]>>,
               reg_id |-> Str(rid), reg_version |-> ver, value |-> op.value]
         [] op.name = "func.return" ->
              [name |-> op.name,
               operands |-> IF operands # << >> THEN <<operands[1]>> ELSE << >>,
               reg_id |-> NoAttr, reg_version |-> None, value |-> 0]
         [] OTHER -> NotImplemented

\* the state the closures of enforce_constraints share
PassState == [block |-> new_block, map |-> new_ops_map, avail |-> available_ops,
              next_reg |-> next_reg]

\* new_block.add_op(new_op): the index of the added operation is Len(block)
AddOp(st, new_op) == [st EXCEPT !.block = Append(st.block, new_op)]

next_overwrite == _compute_next_overwrite(orig_ops)

last_use == _compute_last_use(orig_ops)

RECURSIVE clone_rec(_, _, _)
RECURSIVE CloneOperands(_, _, _, _)
\* operands = [clone_rec(o.owner, idx) for o in op.operands]
CloneOperands(st, owners, k, i) ==
    IF k > Len(owners) THEN [st |-> st, operands |-> << >>]
    ELSE LET c == clone_rec(st, owners[k], i)
             rest == CloneOperands(c.st, owners, k + 1, i)
         IN [st |-> rest.st, operands |-> <<c.res>> \o rest.operands]

clone_rec(st, o, i) ==
    LET op == OpAt(orig_ops, o)
        rid == RegId(op)
        ver == RegVersion(op)
        key == <<rid, ver>>
    IN IF o \in DOMAIN st.map THEN [st |-> st, res |-> st.map[o]]
       ELSE IF key \in DOMAIN st.avail THEN [st |-> st, res |-> st.avail[key]]
       ELSE LET c == CloneOperands(st, op.operands, 1, i)
                new_rid == IF rid # None THEN c.st.next_reg ELSE None
                s1 == IF rid # None THEN [c.st EXCEPT !.next_reg = @ + 1] ELSE c.st
                new_op == _create_like(op, c.operands, new_rid)
                at == Len(s1.block)
                s2 == [AddOp(s1, new_op) EXCEPT !.map = (o :> at) @@ @]
                s3 == IF rid # None /\ ver # None /\ Get(last_use, key, -1) > i
                      THEN [s2 EXCEPT !.avail = (key :> at) @@ @]
                      ELSE s2
            IN [st |-> s3, res |-> at]

\* for key in list(available_ops.keys()): if expired: del available_ops[key]
Expire(st, i) ==
    [st EXCEPT !.avail =
        Without(@, {key \in DOMAIN @ :
                       \/ i >= Get(next_overwrite, key, Inf)
                       \/ i > Get(last_use, key, i)})]

RECURSIVE ResolveOperands(_, _, _, _)
\* for inp in orig_inputs: operands.append(...)
ResolveOperands(st, orig_inputs, k, i) ==
    IF k > Len(orig_inputs) THEN [st |-> st, operands |-> << >>]
    ELSE LET inp == orig_inputs[k]
             key == Key(OpAt(orig_ops, inp))
             r == IF HasReg(OpAt(orig_ops, inp))
                  THEN IF key \in DOMAIN st.avail
                       THEN [st |-> st, res |-> st.avail[key]]
                       ELSE IF i >= Get(next_overwrite, key, Inf)
                            THEN clone_rec(st, inp, i)
                            ELSE [st |-> st, res |-> st.map[inp]]
                  ELSE [st |-> st, res |-> st.map[inp]]
             rest == ResolveOperands(r.st, orig_inputs, k + 1, i)
         IN [st |-> rest.st, operands |-> <<r.res>> \o rest.operands]

\* Constraint 2: same register on both operands
SameRegister(r, orig_inputs, i) ==
    IF /\ Len(r.operands) = 2
       /\ HasReg(OpAt(orig_ops, orig_inputs[1]))
       /\ HasReg(OpAt(orig_ops, orig_inputs[2]))
       /\ Key(OpAt(orig_ops, orig_inputs[1])) = Key(OpAt(orig_ops, orig_inputs[2]))
    THEN LET c == clone_rec(r.st, orig_inputs[2], i)
         IN [st |-> c.st, operands |-> [r.operands EXCEPT ![2] = c.res]]
    ELSE r

\* new_op = _create_like(op, operands, rid) and what follows it in the loop body
Install(r, i) ==
    LET op == OpAt(orig_ops, i)
        rid == RegId(op)
        ver == RegVersion(op)
        key == <<rid, ver>>
        new_op == _create_like(op, r.operands, rid)
        at == Len(r.st.block)
        s1 == [AddOp(r.st, new_op) EXCEPT !.map = (i :> at) @@ @]
    IN IF rid # None /\ ver # None /\ Get(last_use, key, -1) > i
       THEN [s1 EXCEPT !.avail =
                (key :> at) @@ Without(@, {old \in DOMAIN @ : old[1] = rid})]
       ELSE s1

\* one iteration of "for idx, op in enumerate(orig_ops)"
LoopBody(st, i) ==
    LET orig_inputs == OpAt(orig_ops, i).operands
    IN Install(SameRegister(ResolveOperands(Expire(st, i), orig_inputs, 1, i),
                            orig_inputs, i), i)

(***************************************************************************)
(* The backend run of the tests (test_arithmetics.py, test_*_controlled):  *)
(* a fresh circuit, registers "a" and "b", for a controlled primitive a    *)
(* one-qubit register "ctrl", then one call of a primitive.                *)
(***************************************************************************)
RA == <<"a", NoIdx>>

RB == <<"b", NoIdx>>

RCtrl == <<"ctrl", NoIdx>>

NoReg == <<"none", NoIdx>>

\* what a step of the backend run leaves alone
BFrame == UNCHANGED <<evars, tvars, gvars, lvars>>

NoCall == [op |-> "none", a |-> 0, b |-> 0, controlled |-> FALSE, ctrl |-> 1,
           out |-> NoReg, rem |-> NoReg, next |-> "none"]

\* the test runs start with set_number_of_bits(n), n the explored width
BackendAt(pc) ==
    /\ circuit = EmptyCircuit
    /\ bpc = pc
    /\ bcall = NoCall
    /\ number_of_bits = NBits

\* ar = initialize_variable(qc, a, "a"); br = initialize_variable(qc, b, "b")
BInitialize ==
    /\ bpc = "start"
    /\ \E a \in SignedRange, b \in SignedRange :
          /\ circuit' = initialize_variable(initialize_variable(circuit, a, RA), b, RB)
          /\ bcall' = [bcall EXCEPT !.a = a, !.b = b]
    /\ bpc' = "ready"
    /\ UNCHANGED number_of_bits
    /\ BFrame

\* ctrl = QuantumRegister(1, "ctrl"); qc.add_register(ctrl); if ctrl_val == 1: qc.x(ctrl[0])
WithCtrl(c) == Put(AddRegister(circuit, RCtrl, 1), RCtrl, c)

Returned(op, r, rem, controlled, c) ==
    /\ circuit' = r.qc
    /\ bcall' = [bcall EXCEPT !.op = op, !.out = r.out, !.rem = rem,
                              !.controlled = controlled, !.ctrl = c]
    /\ bpc' = "done"
    /\ UNCHANGED number_of_bits
    /\ BFrame

BAdd == bpc = "ready" /\ Returned("add", add(circuit, RA, RB), NoReg, FALSE, 1)

BAddi == bpc = "ready" /\ Returned("addi", addi(circuit, RA, bcall.b), NoReg, FALSE, 1)

BSub == bpc = "ready" /\ Returned("sub", sub(circuit, RA, RB), NoReg, FALSE, 1)

BSubi == bpc = "ready" /\ Returned("subi", subi(circuit, RA, bcall.b), NoReg, FALSE, 1)

BMul == bpc = "ready" /\ Returned("mul", mul(circuit, RA, RB), NoReg, FALSE, 1)

BMuli == bpc = "ready" /\ Returned("muli", muli(circuit, RA, bcall.b), NoReg, FALSE, 1)

\* the run of test_divu.py: a in 0 .. MAX_VAL, b in 1 .. MAX_VAL
BDivu ==
    /\ bpc = "ready"
    /\ bcall.a >= 0 /\ bcall.b > 0
    /\ LET r == divu(circuit, RA, RB) IN Returned("divu", r, r.rem, FALSE, 1)

BDiv ==
    /\ bpc = "ready"
    /\ bcall.b # 0
    /\ LET r == div(circuit, RA, RB) IN Returned("div", r, r.rem, FALSE, 1)

BEqual == bpc = "ready" /\ Returned("eq", equal(circuit, RA, RB), NoReg, FALSE, 1)

BNotEqual == bpc = "ready" /\ Returned("neq", not_equal(circuit, RA, RB), NoReg, FALSE, 1)

BLessThan == bpc = "ready" /\ Returned("lt", less_than(circuit, RA, RB), NoReg, FALSE, 1)

BGreaterThan ==
    bpc = "ready" /\ Returned("gt", greater_than(circuit, RA, RB), NoReg, FALSE, 1)

BLessEqual == bpc = "ready" /\ Returned("le", less_equal(circuit, RA, RB), NoReg, FALSE, 1)

BGreaterEqual ==
    bpc = "ready" /\ Returned("ge", greater_equal(circuit, RA, RB), NoReg, FALSE, 1)

BAddControlled ==
    /\ bpc = "ready"
    /\ \E c \in {0, 1} :
          Returned("add", add_controlled(WithCtrl(c), RA, RB, RCtrl), NoReg, TRUE, c)

BAddiControlled ==
    /\ bpc = "ready"
    /\ \E c \in {0, 1} :
          Returned("addi", addi_controlled(WithCtrl(c), RA, bcall.b, RCtrl), NoReg, TRUE, c)

BSubControlled ==
    /\ bpc = "ready"
    /\ \E c \in {0, 1} :
          Returned("sub", sub_controlled(WithCtrl(c), RA, RB, RCtrl), NoReg, TRUE, c)

BSubiControlled ==
    /\ bpc = "ready"
    /\ \E c \in {0, 1} :
          Returned("subi", subi_controlled(WithCtrl(c), RA, bcall.b, RCtrl), NoReg, TRUE, c)

BMulControlled ==
    /\ bpc = "ready"
    /\ \E c \in {0, 1} :
          Returned("mul", mul_controlled(WithCtrl(c), RA, RB, RCtrl), NoReg, TRUE, c)

BMuliControlled ==
    /\ bpc = "ready"
    /\ \E c \in {0, 1} :
          Returned("muli", muli_controlled(WithCtrl(c), RA, bcall.b, RCtrl), NoReg, TRUE, c)

BDivuControlled ==
    /\ bpc = "ready"
    /\ bcall.a >= 0 /\ bcall.b > 0
    /\ \E c \in {0, 1} :
          LET r == divu_controlled(WithCtrl(c), RA, RB, RCtrl)
          IN Returned("divu", r, r.rem, TRUE, c)

BDivControlled ==
    /\ bpc = "ready"
    /\ bcall.b # 0
    /\ \E c \in {0, 1} :
          LET r == div_controlled(WithCtrl(c), RA, RB, RCtrl)
          IN Returned("div", r, r.rem, TRUE, c)

BDiviControlled ==
    /\ bpc = "ready"
    /\ bcall.b # 0
    /\ \E c \in {0, 1} :
          LET r == divi_controlled(WithCtrl(c), RA, bcall.b, RCtrl)
          IN Returned("divi", r, r.rem, TRUE, c)

BDivControlledStep5 ==
    /\ bpc = "ready"
    /\ bcall.b # 0
    /\ \E c \in {0, 1} :
          LET r == div_controlled_s5(WithCtrl(c), RA, RB, RCtrl)
          IN Returned("div_s5", r, r.rem, TRUE, c)

\* the primitives called on a circuit a first call has returned on, the
\* generated circuit of a function of two operations
Uncontrolled ==
    {"add", "addi", "sub", "mul", "div", "eq", "neq", "lt", "gt", "le", "ge"}

ControlledCalls == {"add", "divi"}

\* the circuit after the second call, on the operands of the first
SecondCall(p, controlled) ==
    IF controlled
    THEN CASE p = "add" -> add_controlled(circuit, RA, RB, RCtrl).qc
           [] p = "divi" -> divi_controlled(circuit, RA, bcall.b, RCtrl).qc
    ELSE CASE p = "add" -> add(circuit, RA, RB).qc
           [] p = "addi" -> addi(circuit, RA, bcall.b).qc
           [] p = "sub" -> sub(circuit, RA, RB).qc
           [] p = "mul" -> mul(circuit, RA, RB).qc
           [] p = "div" -> div(circuit, RA, RB).qc
           [] p = "eq" -> equal(circuit, RA, RB).qc
           [] p = "neq" -> not_equal(circuit, RA, RB).qc
           [] p = "lt" -> less_than(circuit, RA, RB).qc
           [] p = "gt" -> greater_than(circuit, RA, RB).qc
           [] p = "le" -> less_equal(circuit, RA, RB).qc
           [] p = "ge" -> greater_equal(circuit, RA, RB).qc

BCallAgain ==
    /\ bpc = "done"
    /\ circuit.err = "none"
    /\ \E p \in IF bcall.controlled THEN ControlledCalls ELSE Uncontrolled :
          /\ p \in {"div", "divi"} => bcall.b # 0
          /\ circuit' = SecondCall(p, bcall.controlled)
          /\ bcall' = [bcall EXCEPT !.next = p]
    /\ bpc' = "again"
    /\ UNCHANGED number_of_bits
    /\ BFrame

BStep ==
    \/ BInitialize
    \/ BAdd \/ BAddi \/ BSub \/ BSubi \/ BMul \/ BMuli \/ BDivu \/ BDiv
    \/ BEqual \/ BNotEqual \/ BLessThan \/ BGreaterThan \/ BLessEqual \/ BGreaterEqual
    \/ BAddControlled \/ BAddiControlled \/ BSubControlled \/ BSubiControlled
    \/ BMulControlled \/ BMuliControlled
    \/ BDivuControlled \/ BDivControlled \/ BDiviControlled \/ BDivControlledStep5
    \/ BCallAgain

(***************************************************************************)
(* The configuration runs: set_number_of_bits(n) on the freshly imported   *)
(* modules, then an Init of a literal (generate_circuit on QuantumInitOp   *)
(* and QuantumCInitOp), or the run of test_addi_controlled.py.             *)
(***************************************************************************)
\* NUMBER_OF_BITS = 4 of q_arithmetics.py, before any set_number_of_bits
DefaultBits == 4

Widths == 0 .. MaxBits

\* the literals of the explored Init operations
Literals == (-(2 ^ MaxBits)) .. (2 ^ MaxBits)

ConfigureAt(pc) ==
    /\ circuit = EmptyCircuit
    /\ bpc = pc
    /\ bcall = NoCall
    /\ number_of_bits = DefaultBits

\* set_number_of_bits(n)
BSetNumberOfBits ==
    /\ bpc = "configure"
    /\ \E n \in Widths :
          IF n <= 0
          THEN /\ circuit' = [circuit EXCEPT !.err = "ValueError"]
               /\ bpc' = "error"
               /\ UNCHANGED number_of_bits
          ELSE /\ number_of_bits' = n
               /\ bpc' = "start"
               /\ UNCHANGED circuit
    /\ UNCHANGED bcall
    /\ BFrame

\* reg = qa.initialize_variable(qc, val)
BInit_literal ==
    /\ bpc = "start"
    /\ \E value \in Literals :
          /\ circuit' = initialize_variable(circuit, value, RA)
          /\ bcall' = [bcall EXCEPT !.op = "init", !.a = value]
    /\ bpc' = "done"
    /\ UNCHANGED number_of_bits
    /\ BFrame

\* reg = qac.initialize_variable_controlled(qc, val, ctrl)
BCInit_literal ==
    /\ bpc = "start"
    /\ \E value \in Literals, c \in {0, 1} :
          /\ circuit' = initialize_variable_controlled(WithCtrl(c), value, RCtrl, RA)
          /\ bcall' = [bcall EXCEPT !.op = "cinit", !.a = value, !.controlled = TRUE,
                                    !.ctrl = c]
    /\ bpc' = "done"
    /\ UNCHANGED number_of_bits
    /\ BFrame

CStep ==
    \/ BSetNumberOfBits \/ BInit_literal \/ BCInit_literal
    \/ BInitialize \/ BAddiControlled

(***************************************************************************)
(* The run of the enforcement pass: a block is built with the constructors *)
(* of the dialect, enforce_constraints is called on the module, and called *)
(* again on the module it returned.                                        *)
(***************************************************************************)
MaxOps == 3

InitValues == {1}

ImmValues == {1}

\* what a step of the enforcement run leaves alone
EFrame == UNCHANGED <<bvars, tvars, gvars, lvars>>

\* no graph was built
NoGraph == [kind |-> "none", nodes |-> << >>, edges |-> << >>]

\* no function was generated
NoProgram == [stmts |-> << >>, is_none |-> TRUE]

GenerateAt(pc) ==
    /\ xpc = pc
    /\ region = << >>
    /\ x_block = 1
    /\ x_pos = 1
    /\ x_env = << >>
    /\ trace = << >>

EnforceAt(pc) ==
    /\ dag = NoGraph
    /\ orig_ops = << >>
    /\ epc = pc
    /\ pass_no = 1
    /\ loop_idx = 0
    /\ new_block = << >>
    /\ new_ops_map = << >>
    /\ available_ops = << >>
    /\ next_reg = 0
    /\ first_in = << >>
    /\ first_out = << >>

Producers(ops) == {i \in Indices(ops) : HasReg(OpAt(ops, i))}

\* a register no operation of the block names yet
UnusedReg(ops) == SetMax({RegId(OpAt(ops, i)) : i \in Producers(ops)} \cup {-1}) + 1

\* the version after the newest version of register rid in the block
NewestVersion(ops, rid) ==
    SetMax({RegVersion(OpAt(ops, i)) : i \in {j \in Producers(ops) : RegId(OpAt(ops, j)) = rid}})

\* the register and version a constructor is given: the register of lhs at its
\* next version, or a register not used yet at version 0
Placements(ops, lhs) ==
    { <<RegId(OpAt(ops, lhs)), NewestVersion(ops, RegId(OpAt(ops, lhs))) + 1>>,
      <<UnusedReg(ops), 0>> }

Building == epc = "build" /\ Len(orig_ops) < MaxOps

Built(op) ==
    /\ orig_ops' = Append(orig_ops, op)
    /\ UNCHANGED <<epc, pass_no, loop_idx, new_block, new_ops_map, available_ops,
                   next_reg, first_in, first_out>>
    /\ EFrame

\* block.add_op(QuantumInitOp(value, str(rid), 0, 0))
EBuildInit ==
    /\ Building
    /\ \E value \in InitValues :
          Built([name |-> "quantum.init", operands |-> << >>,
                 reg_id |-> Str(UnusedReg(orig_ops)), reg_version |-> 0, value |-> value])

\* block.add_op(QAddiOp(lhs, rhs, str(rid), ver, 0)), or QMuliOp
EBuildBinary ==
    /\ Building
    /\ \E name \in BinaryNames, lhs \in Producers(orig_ops), rhs \in Producers(orig_ops) :
          \E place \in Placements(orig_ops, lhs) :
              Built([name |-> name, operands |-> <<lhs, rhs>>,
                     reg_id |-> Str(place[1]), reg_version |-> place[2], value |-> 0])

\* block.add_op(QAddiImmOp(lhs, imm, str(rid), ver, 0))
EBuildImm ==
    /\ Building
    /\ \E name \in ImmNames, lhs \in Producers(orig_ops), imm \in ImmValues :
          \E place \in Placements(orig_ops, lhs) :
              Built([name |-> name, operands |-> <<lhs>>,
                     reg_id |-> Str(place[1]), reg_version |-> place[2], value |-> imm])

\* the operations the translator emits for an if: QCmpiOp, QAndOp, QNotOp,
\* QuantumCInitOp, CQAddiImmOp
UnaryControlNames == {"quantum.not", "quantum.c_init"}

BinaryControlNames == {"quantum.cmpi", "quantum.and", "quantum.c_addi_imm"}

\* block.add_op(QNotOp(operand)), QuantumCInitOp(ctrl, value), QCmpiOp(lhs, rhs,
\* predicate), QAndOp(lhs, rhs), CQAddiImmOp(lhs, imm, ctrl): operations whose
\* constructors set no reg_id and no reg_version
EBuildOther ==
    /\ Building
    /\ \E lhs \in Indices(orig_ops), rhs \in Indices(orig_ops) :
          \/ \E name \in UnaryControlNames :
                /\ lhs = rhs
                /\ Built([name |-> name, operands |-> <<lhs>>, reg_id |-> NoAttr,
                          reg_version |-> None, value |-> 1])
          \/ \E name \in BinaryControlNames :
                Built([name |-> name, operands |-> <<lhs, rhs>>, reg_id |-> NoAttr,
                       reg_version |-> None, value |-> 1])

\* the state at the head of the loop of enforce_constraints(module)
Entered(ops) ==
    /\ orig_ops' = ops
    /\ next_reg' = SetMax({RegId(OpAt(ops, i)) : i \in Producers(ops)} \cup {-1}) + 1
    /\ new_block' = << >>
    /\ new_ops_map' = << >>
    /\ available_ops' = << >>
    /\ loop_idx' = 0
    /\ epc' = "enforce"

\* block.add_op(ReturnOp(value)); module = ModuleOp([func]); enforce_constraints(module)
EBuildReturn ==
    /\ epc = "build"
    /\ orig_ops # << >>
    /\ \E operands \in {<<v>> : v \in Producers(orig_ops)} \cup {<< >>} :
          LET ops == Append(orig_ops, [name |-> "func.return", operands |-> operands,
                                       reg_id |-> NoAttr, reg_version |-> None,
                                       value |-> 0])
          IN /\ Entered(ops)
             /\ first_in' = ops
    /\ UNCHANGED <<pass_no, first_out>>
    /\ EFrame

\* one iteration of the loop of enforce_constraints, or the exception that
\* _create_like raised in it
EnforceStep ==
    /\ epc = "enforce"
    /\ loop_idx < Len(orig_ops)
    /\ LET st == LoopBody(PassState, loop_idx)
       IN IF NotImplemented \in {st.block[n] : n \in DOMAIN st.block}
          THEN /\ epc' = "error"
               /\ UNCHANGED <<new_block, new_ops_map, available_ops, next_reg, loop_idx>>
          ELSE /\ new_block' = st.block
               /\ new_ops_map' = st.map
               /\ available_ops' = st.avail
               /\ next_reg' = st.next_reg
               /\ loop_idx' = loop_idx + 1
               /\ UNCHANGED epc
    /\ UNCHANGED <<orig_ops, pass_no, first_in, first_out>>
    /\ EFrame

\* return ModuleOp([new_func]); the first result is handed to enforce_constraints again
EnforceAgain ==
    /\ epc = "enforce"
    /\ loop_idx = Len(orig_ops)
    /\ pass_no = 1
    /\ first_out' = new_block
    /\ pass_no' = 2
    /\ Entered(new_block)
    /\ UNCHANGED first_in
    /\ EFrame

\* return ModuleOp([new_func]) of the second call
EnforceReturn ==
    /\ epc = "enforce"
    /\ loop_idx = Len(orig_ops)
    /\ pass_no = 2
    /\ epc' = "done"
    /\ UNCHANGED <<orig_ops, pass_no, loop_idx, new_block, new_ops_map, available_ops,
                   next_reg, first_in, first_out>>
    /\ EFrame

EStep ==
    \/ EBuildInit \/ EBuildBinary \/ EBuildImm \/ EBuildReturn
    \/ EnforceStep \/ EnforceAgain \/ EnforceReturn

\* the same run on blocks that hold the operations of a translated if too
EStepTranslated == EStep \/ EBuildOther

(***************************************************************************)
(* Properties of the enforcement pass                                      *)
(***************************************************************************)
\* the modules enforce_constraints has returned so far
Returned1 == pass_no = 2

Returned2 == epc = "done"

Operand(ops, i, k) == OpAt(ops, OpAt(ops, i).operands[k])

DoubleConsumers(ops) ==
    {i \in Indices(ops) : /\ Len(OpAt(ops, i).operands) = 2
                          /\ Key(Operand(ops, i, 1)) = Key(Operand(ops, i, 2))}

StaleReads(ops) ==
    {<<i, k>> \in Indices(ops) \X {1, 2} :
        /\ k \in DOMAIN OpAt(ops, i).operands
        /\ HasReg(Operand(ops, i, k))
        /\ LET key == Key(Operand(ops, i, k))
           IN \/ i > Get(_compute_next_overwrite(ops), key, Inf)
              \/ i > Get(_compute_last_use(ops), key, i)}

NotInPlace(ops) ==
    {i \in Indices(ops) :
        /\ OpAt(ops, i).name \in BinaryNames \cup ImmNames
        /\ ~ /\ RegId(OpAt(ops, i)) = RegId(Operand(ops, i, 1))
             /\ RegVersion(OpAt(ops, i)) = RegVersion(Operand(ops, i, 1)) + 1}

Measured(r) == Decode(V(circuit, r), circuit.regs[r].w)

\* a / b truncated toward zero (int(a / b) of the tests)
TruncDiv(a, b) ==
    LET abs_a == IF a < 0 THEN -a ELSE a
        abs_b == IF b < 0 THEN -b ELSE b
    IN IF (a < 0) = (b < 0) THEN abs_a \div abs_b ELSE -(abs_a \div abs_b)

Expected(op, a, b) ==
    CASE op \in {"add", "addi"} -> Twos(a + b)
      [] op \in {"sub", "subi"} -> Twos(a - b)
      [] op \in {"mul", "muli"} -> Twos(a * b)

\* C5: for every (a, b) in the signed range of the bit width and each of add,
\* sub and mul, the decoded output register of the primitive is (a op b) mod 2^n
\* read as an n-bit two's complement value.
RoundTripCorrect ==
    (bpc = "done" /\ ~bcall.controlled /\ bcall.op \in {"add", "sub", "mul"})
        => /\ circuit.err = "none"
           /\ Measured(bcall.out) = Expected(bcall.op, bcall.a, bcall.b)

\* mul of MAX_VAL by MAX_VAL has returned: the product wraps
RoundTripWitness ==
    /\ bpc = "done" /\ ~bcall.controlled /\ bcall.op = "mul"
    /\ bcall.a = MAX_VAL /\ bcall.b = MAX_VAL
    /\ bcall.a * bcall.b > MAX_VAL
    /\ Measured(bcall.out) = Twos(MAX_VAL * MAX_VAL)

\* C6: for every positive a and nonzero b in the signed range, the quotient
\* register of div decodes to a / b truncated toward zero, the remainder
\* register to a - quotient * b.
DivisionCorrect ==
    (bpc = "done" /\ ~bcall.controlled /\ bcall.op = "div" /\ bcall.a > 0 /\ bcall.b # 0)
        => /\ circuit.err = "none"
           /\ Measured(bcall.out) = TruncDiv(bcall.a, bcall.b)
           /\ Measured(bcall.rem) = bcall.a - TruncDiv(bcall.a, bcall.b) * bcall.b

\* div of 3 by -2 has returned quotient -1 and remainder 1
DivisionWitness ==
    /\ bpc = "done" /\ ~bcall.controlled /\ bcall.op = "div"
    /\ bcall.a = 3 /\ bcall.b = -2
    /\ Measured(bcall.out) = -1 /\ Measured(bcall.rem) = 1

\* C9: a controlled primitive called with the control qubit in state 0 leaves
\* every operand register at its value and its result registers at 0.
ControlFalseIsIdentity ==
    (bpc = "done" /\ bcall.controlled /\ bcall.ctrl = 0)
        => /\ circuit.err = "none"
           /\ Measured(RA) = bcall.a
           /\ Measured(RB) = bcall.b
           /\ Measured(bcall.out) = 0
           /\ (bcall.rem # NoReg => Measured(bcall.rem) = 0)

OutOfPlace == {"add", "addi", "sub", "mul", "divu", "div"}

\* C16: after add, addi, sub, mul, divu or div has returned, the registers
\* the caller passed as operands decode to the values they held before the
\* call.
OperandsUnchanged ==
    (bpc = "done" /\ ~bcall.controlled /\ bcall.op \in OutOfPlace)
        => /\ circuit.err = "none"
           /\ Measured(RA) = bcall.a
           /\ Measured(RB) = bcall.b

Comparisons == {"eq", "neq", "lt", "gt", "le", "ge"}

\* the signed relation a comparison primitive is to decide
Relation(op, a, b) ==
    CASE op = "eq" -> a = b
      [] op = "neq" -> a # b
      [] op = "lt" -> a < b
      [] op = "gt" -> a > b
      [] op = "le" -> a <= b
      [] op = "ge" -> a >= b

\* C18: for every pair (a, b) of the signed range, the qubit each of the six
\* comparison primitives returns measures 1 exactly when the signed relation
\* between a and b holds.
ComparisonCorrect ==
    (bpc = "done" /\ ~bcall.controlled /\ bcall.op \in Comparisons)
        => /\ circuit.err = "none"
           /\ V(circuit, bcall.out) = IF Relation(bcall.op, bcall.a, bcall.b) THEN 1 ELSE 0

\* C17: in a sequence of primitive calls on one circuit, a second call of
\* the same primitive included, no call fails on the name of a helper or
\* result register that the circuit already holds.
FreshRegisterNames == bpc \in {"done", "again"} => circuit.err # "CircuitError"

\* C19 as stated: for every a and every b # 0 of the signed range, negative
\* a and the minimum value included, the quotient register of div decodes to
\* a / b truncated toward zero and the remainder register to a - quotient * b.
SignedDivisionCorrect ==
    (bpc = "done" /\ ~bcall.controlled /\ bcall.op = "div" /\ bcall.b # 0)
        => /\ circuit.err = "none"
           /\ Measured(bcall.out) = TruncDiv(bcall.a, bcall.b)
           /\ Measured(bcall.rem) = bcall.a - TruncDiv(bcall.a, bcall.b) * bcall.b

\* C19: for every a and every b # 0 of the signed range, negative a and the
\* minimum value included, the quotient register of div decodes to a / b
\* truncated toward zero, wrapped to n signed bits (only MIN_VAL / -1, whose
\* quotient 2^(n-1) is no n-bit value, wraps: to MIN_VAL), and the remainder
\* register decodes to a - (a / b) * b.
SignedDivisionWrapped ==
    (bpc = "done" /\ ~bcall.controlled /\ bcall.op = "div" /\ bcall.b # 0)
        => /\ circuit.err = "none"
           /\ Measured(bcall.out) = Twos(TruncDiv(bcall.a, bcall.b))
           /\ Measured(bcall.rem) = bcall.a - TruncDiv(bcall.a, bcall.b) * bcall.b

\* div of MIN_VAL by -1 has returned: the quotient wrapped to MIN_VAL, the
\* remainder is 0
SignedDivisionWitness ==
    /\ bpc = "done" /\ ~bcall.controlled /\ bcall.op = "div"
    /\ bcall.a = MIN_VAL /\ bcall.b = -1
    /\ TruncDiv(bcall.a, bcall.b) > MAX_VAL
    /\ Measured(bcall.out) = MIN_VAL /\ Measured(bcall.rem) = 0

\* C13: an Init, plain or controlled, of a literal outside the signed range of
\* the configured width fails with ValueError and adds no register; an Init
\* of a literal inside the range is accepted and adds the register.
InitRangeChecked ==
    (bpc = "done" /\ bcall.op \in {"init", "cinit"})
        => IF bcall.a \in SignedRange
           THEN /\ circuit.err = "none"
                /\ RA \in Names(circuit)
           ELSE /\ circuit.err = "ValueError"
                /\ RA \notin Names(circuit)

\* C20: for every configured width and every a and immediate b of its signed
\* range, the register addi_controlled returns holds (a + b) mod 2^n, the
\* two's complement encoding of the sum, when the control is 1, and 0 when it
\* is 0.
AddiControlledCorrect ==
    (bpc = "done" /\ bcall.controlled /\ bcall.op = "addi")
        => /\ circuit.err = "none"
           /\ V(circuit, bcall.out)
                 = IF bcall.ctrl = 1 THEN (bcall.a + bcall.b) % Modulus ELSE 0

(***************************************************************************)
(* mlir_generator.py: the classical functions the translator is given.  A  *)
(* classical operation is a record of its kind, its opcode, the value it   *)
(* defines, its operand values, its constant / immediate / predicate, and  *)
(* for cond_br its two successor blocks.  lower_if puts the statements     *)
(* after an if, the return included, at the end of both successor blocks.  *)
(***************************************************************************)
NoValue == 0

ClassicalOp(kind, opcode, res, args, k, t, f) ==
    [kind |-> kind, opcode |-> opcode, res |-> res, args |-> args, k |-> k,
     t |-> t, f |-> f]

ConstantOp(res, value) == ClassicalOp("const", "", res, << >>, value, 0, 0)

ArithOp(opcode, res, lhs, rhs) == ClassicalOp("binary", opcode, res, <<lhs, rhs>>, 0, 0, 0)

ArithImmOp(opcode, res, lhs, imm) == ClassicalOp("binaryimm", opcode, res, <<lhs>>, imm, 0, 0)

CmpiOp(res, lhs, rhs, predicate) ==
    ClassicalOp("cmpi", "", res, <<lhs, rhs>>, predicate, 0, 0)

CondBranchOp(cond, then_block, else_block) ==
    ClassicalOp("cond_br", "", NoValue, <<cond>>, 0, then_block, else_block)

ClassicalReturnOp(val) == ClassicalOp("return", "", NoValue, <<val>>, 0, 0, 0)

\* the zero-extension that lowers !x: an operation the translator does not know
ExtUIOp(res, operand) == ClassicalOp("extui", "", res, <<operand>>, 0, 0, 0)

\* the argument of the entry block of a function with one input: a value that
\* no operation defines
BlockArgument == 9

\* the values of int a = ..., int b = ... in the explored programs
SourceValues == {-1, 0, 2}

\* cmp_map: "eq" is predicate 0, "slt" predicate 2, "sgt" predicate 4
SourcePredicates == {0, 2}

\* the right-hand sides of x = ... in an arm: a literal, a + 1, a - b, a + a, or
\* a nested if (b > 0) x = a + 1; else x = <literal>;
ArmShapes == {"lit", "imm", "reg", "dbl", "nest"}

\* the values that block b defines are numbered from 10 * b
Arm(shape, b) ==
    LET x == 10 * b + 1
    IN CASE shape = "lit" -> <<ConstantOp(x, b - 1), ClassicalReturnOp(x)>>
         [] shape = "imm" -> <<ArithImmOp("add", x, 1, 1), ClassicalReturnOp(x)>>
         [] shape = "reg" -> <<ArithOp("sub", x, 1, 2), ClassicalReturnOp(x)>>
         [] shape = "dbl" -> <<ArithOp("add", x, 1, 1), ClassicalReturnOp(x)>>
         [] shape = "nest" -> <<ConstantOp(x, 0), CmpiOp(x + 1, 2, x, 4),
                                CondBranchOp(x + 1, 2 * b, 2 * b + 1)>>

Inner(shape, b, inner) == IF shape = "nest" THEN Arm(inner, b) ELSE << >>

\* int a = A; int b = B; if (a pred b) x = e1; else x = e2; return x;
IfProgram(A, B, pred, e1, e2) ==
    << <<ConstantOp(1, A), ConstantOp(2, B), CmpiOp(3, 1, 2, pred), CondBranchOp(3, 2, 3)>>,
       Arm(e1, 2), Arm(e2, 3),
       Inner(e1, 4, "imm"), Inner(e1, 5, "lit"), Inner(e2, 6, "imm"), Inner(e2, 7, "lit") >>

Opcodes == {"add", "sub", "mul", "div"}

\* int a = A; int b = B; int s = a op b (or a op a); int x = s op2 2; return x;
StraightProgram(A, B, opcode, rhs, opcode2) ==
    << <<ConstantOp(1, A), ConstantOp(2, B), ArithOp(opcode, 3, 1, rhs),
         ArithImmOp(opcode2, 4, 3, 2), ClassicalReturnOp(4)>> >>

\* the statements x = ... that end in a division by an immediate, in !a, or
\* in a read of the argument p of the function
TailShapes == {"div0", "div2", "not", "arg", "argimm", "argret"}

\* x = a / 0; x = a / 2; x = !a; x = a + p; x = p + 1; (nothing): each
\* followed by return x (return p for the last)
TailOps(shape, x) ==
    CASE shape = "div0" -> <<ArithImmOp("div", x, 1, 0), ClassicalReturnOp(x)>>
      [] shape = "div2" -> <<ArithImmOp("div", x, 1, 2), ClassicalReturnOp(x)>>
      [] shape = "not" -> <<ConstantOp(x, 0), CmpiOp(x + 1, 1, x, 0), ExtUIOp(x + 2, x + 1),
                            ClassicalReturnOp(x + 2)>>
      [] shape = "arg" -> <<ArithOp("add", x, 1, BlockArgument), ClassicalReturnOp(x)>>
      [] shape = "argimm" -> <<ArithImmOp("add", x, BlockArgument, 1), ClassicalReturnOp(x)>>
      [] shape = "argret" -> <<ClassicalReturnOp(BlockArgument)>>

\* int a = A; <tail>
TailProgram(A, shape) == << <<ConstantOp(1, A)>> \o TailOps(shape, 4) >>

\* int a = A; int b = 0; if (a pred b) <tail>; else { x = 1; return x; }
IfTailProgram(A, pred, shape) ==
    << <<ConstantOp(1, A), ConstantOp(2, 0), CmpiOp(3, 1, 2, pred), CondBranchOp(3, 2, 3)>>,
       TailOps(shape, 21), <<ConstantOp(31, 1), ClassicalReturnOp(31)>> >>

\* a second function of the module: int c = C; c = c + 2; return c;
SecondFunction(C) ==
    << <<ConstantOp(41, C), ArithImmOp("add", 42, 41, 2), ClassicalReturnOp(42)>> >>

\* what follows the first function in module.ops: nothing, or one function
LaterFunctions == {<< >>} \cup {<<SecondFunction(C)>> : C \in {0, 2}}

Programs ==
    {IfProgram(A, B, pred, e1, e2) :
        A \in SourceValues, B \in SourceValues, pred \in SourcePredicates,
        e1 \in ArmShapes, e2 \in ArmShapes}
    \cup {StraightProgram(A, B, opcode, rhs, opcode2) :
        A \in SourceValues, B \in SourceValues, opcode \in Opcodes, rhs \in {1, 2},
        opcode2 \in Opcodes}
    \cup {TailProgram(A, shape) : A \in SourceValues, shape \in TailShapes}
    \cup {IfTailProgram(A, pred, shape) :
        A \in SourceValues, pred \in SourcePredicates, shape \in TailShapes}

(***************************************************************************)
(* The interpreter of test_mlir_equivalence_to_fix.py on a classical       *)
(* function.                                                               *)
(***************************************************************************)
BoolInt(p) == IF p THEN 1 ELSE 0

\* run_cmp: predicates 0..5 are eq, ne, lt, le, gt, ge
Compare(pred, lhs, rhs) ==
    CASE pred = 0 -> BoolInt(lhs = rhs)
      [] pred = 1 -> BoolInt(lhs # rhs)
      [] pred = 2 -> BoolInt(lhs < rhs)
      [] pred = 3 -> BoolInt(lhs <= rhs)
      [] pred = 4 -> BoolInt(lhs > rhs)
      [] pred = 5 -> BoolInt(lhs >= rhs)

\* the None a division by zero evaluates to
Undefined == 1000000

\* lhs // rhs of Python: the quotient rounded toward minus infinity
FloorDiv(lhs, rhs) == IF rhs > 0 THEN lhs \div rhs ELSE (-lhs) \div (-rhs)

Arith(opcode, lhs, rhs) ==
    CASE opcode = "add" -> lhs + rhs
      [] opcode = "sub" -> lhs - rhs
      [] opcode = "mul" -> lhs * rhs
      [] opcode = "div" -> IF rhs = 0 THEN Undefined ELSE FloorDiv(lhs, rhs)

\* the arithmetic of Python on a None operand raises
TypeError == [status |-> "TypeError", value |-> 0]

RECURSIVE RunClassical(_, _, _, _)
RunClassical(blocks, b, pos, env) ==
    IF pos > Len(blocks[b]) THEN [status |-> "fell off", value |-> 0]
    ELSE LET o == blocks[b][pos]
             arg(k) == env[o.args[k]]
             bind(v) == RunClassical(blocks, b, pos + 1, (o.res :> v) @@ env)
         IN CASE o.kind = "const" -> bind(o.k)
              [] o.kind = "binary" ->
                    IF Undefined \in {arg(1), arg(2)} THEN TypeError
                    ELSE bind(Arith(o.opcode, arg(1), arg(2)))
              [] o.kind = "binaryimm" ->
                    IF arg(1) = Undefined THEN TypeError
                    ELSE bind(Arith(o.opcode, arg(1), o.k))
              [] o.kind = "cmpi" -> bind(Compare(o.k, arg(1), arg(2)))
              [] o.kind = "cond_br" ->
                    RunClassical(blocks, IF arg(1) # 0 THEN o.t ELSE o.f, 1, env)
              [] o.kind = "return" -> [status |-> "returned", value |-> arg(1)]

ClassicalResult(blocks) == RunClassical(blocks, 1, 1, << >>)

(***************************************************************************)
(* quantum_translate.py: QuantumTranslator.  A quantum operation is a      *)
(* record of its class, its operand values (each the index of the emitting *)
(* operation in current_block), its control value, its constant /          *)
(* immediate / predicate, and the register of its name hint.               *)
(***************************************************************************)
NoControl == 0

QuantumOp(name, operands, ctrl, k) ==
    [name |-> name, operands |-> operands, ctrl |-> ctrl, k |-> k, hint |-> None]

\* the fields of the translator its methods read and write
Translator ==
    [block |-> current_block, under |-> emitted_under, stack |-> control_stack,
     next_reg |-> t_next_reg, val_info |-> val_info, reg_version |-> t_reg_version,
     reg_ssa |-> reg_ssa, err |-> t_err]

\* an exception that is swallowed
Raise_swallowed(T, exception) == T

Raise(T, exception) == IF T.err = "none" THEN [T EXCEPT !.err = exception] ELSE T

\* self.current_block.add_op(op); the value of its result is its index
AddQuantumOp(T, qop) ==
    [T EXCEPT !.block = Append(@, qop), !.under = Append(@, T.stack)]

LastValue(T) == Len(T.block)

\* op.results[0].name_hint = f"q{reg}_0"; self.reg_ssa[reg] = op.results[0]
NameResult(T, reg) ==
    [T EXCEPT !.block[Len(T.block)].hint = reg,
              !.reg_ssa = (reg :> Len(T.block)) @@ @]

\* an allocation that leaves next_reg where it was
allocate_reg_reused(T) == [T EXCEPT !.reg_version = (T.next_reg :> 0) @@ @]

allocate_reg(T) ==
    [T EXCEPT !.next_reg = @ + 1, !.reg_version = (T.next_reg :> 0) @@ @]

RECURSIVE FoldControls(_, _, _)
\* for cond in self.control_stack[1:]: ctrl = QAndOp(ctrl, cond), in a new register
FoldControls(T, ctrl, k) ==
    IF k > Len(T.stack) THEN [T |-> T, ctrl |-> ctrl]
    ELSE LET new_ctrl == T.next_reg
             T1 == AddQuantumOp(allocate_reg(T),
                                QuantumOp("QAndOp", <<ctrl, T.stack[k]>>, NoControl, 0))
             T2 == [NameResult(T1, new_ctrl) EXCEPT !.reg_version = (new_ctrl :> 0) @@ @]
         IN FoldControls(T2, LastValue(T2), k + 1)

get_current_control(T) ==
    IF T.stack = << >> THEN [T |-> T, ctrl |-> NoControl]
    ELSE IF Len(T.stack) = 1 THEN [T |-> T, ctrl |-> T.stack[1]]
    ELSE FoldControls(T, T.stack[1], 2)

QClass(opcode) ==
    CASE opcode = "add" -> "QAddiOp" [] opcode = "sub" -> "QSubiOp"
      [] opcode = "mul" -> "QMuliOp" [] opcode = "div" -> "QDivSOp"

\* every immediate operation lowered as an addition
QImmClass_addition(opcode) == "QAddiImmOp"

QImmClass(opcode) ==
    CASE opcode = "add" -> "QAddiImmOp" [] opcode = "sub" -> "QSubiImmOp"
      [] opcode = "mul" -> "QMuliImmOp" [] opcode = "div" -> "QDivSImmOp"

CQClass(opcode) ==
    CASE opcode = "add" -> "CQAddiOp" [] opcode = "sub" -> "CQSubiOp"
      [] opcode = "mul" -> "CQMuliOp" [] opcode = "div" -> "CQDivSOp"

CQImmClass(opcode) ==
    CASE opcode = "add" -> "CQAddiImmOp" [] opcode = "sub" -> "CQSubiImmOp"
      [] opcode = "mul" -> "CQMuliImmOp" [] opcode = "div" -> "CQDivSImmOp"

create_binary_op(T, opcode, lhs, rhs) ==
    LET c == get_current_control(T)
    IN [T |-> c.T,
        op |-> IF c.ctrl = NoControl
               THEN QuantumOp(QClass(opcode), <<lhs, rhs>>, NoControl, 0)
               ELSE QuantumOp(CQClass(opcode), <<lhs, rhs>>, c.ctrl, 0)]

create_binary_imm_op(T, opcode, lhs, imm) ==
    LET c == get_current_control(T)
    IN [T |-> c.T,
        op |-> IF c.ctrl = NoControl
               THEN QuantumOp(QImmClass(opcode), <<lhs>>, NoControl, imm)
               ELSE QuantumOp(CQImmClass(opcode), <<lhs>>, c.ctrl, imm)]

ValueInfo(reg, version, expr) == [reg |-> reg, version |-> version, expr |-> expr]

Expr(kind, opcode, args, k) == [kind |-> kind, opcode |-> opcode, args |-> args, k |-> k]

\* the tail of each branch of recompute: name the result, point info at reg
Recomputed(T, val, reg) ==
    [NameResult(T, reg) EXCEPT !.reg_version = (reg :> 0) @@ @,
                               !.val_info[val].version = 0,
                               !.val_info[val].reg = reg]

\* emit_value, recompute and duplicate_value call one another: Materialize is
\* the three of them, "how" naming the method entered
RECURSIVE Materialize(_, _, _)
Materialize(T, val, how) ==
    CASE how = "emit_value" ->
           IF val \notin DOMAIN T.val_info THEN [T |-> Raise(T, "KeyError"), q |-> NoValue]
           ELSE LET info == T.val_info[val]
                    T1 == IF T.reg_version[info.reg] # info.version
                          THEN Materialize(T, val, "recompute").T
                          ELSE T
                    reg == T1.val_info[val].reg
                IN IF reg \in DOMAIN T1.reg_ssa
                   THEN [T |-> T1, q |-> T1.reg_ssa[reg]]
                   ELSE [T |-> Raise(T1, "KeyError"), q |-> NoValue]
      [] how = "duplicate_value" ->
           LET e == Materialize(T, val, "emit_value")
               reg == e.T.next_reg
               T1 == AddQuantumOp(allocate_reg(e.T),
                                  QuantumOp("QAddiImmOp", <<e.q>>, NoControl, 0))
               T2 == [NameResult(T1, reg) EXCEPT !.reg_version = (reg :> 0) @@ @]
           IN [T |-> T2, q |-> LastValue(T2)]
      [] how = "recompute" ->
           LET expr == T.val_info[val].expr
               operand(T0, k) == Materialize(T0, expr.args[k], "emit_value")
           IN CASE expr.kind = "const" ->
                     LET T1 == AddQuantumOp(allocate_reg(T),
                                  QuantumOp("QuantumInitOp", << >>, NoControl, expr.k))
                     IN [T |-> Recomputed(T1, val, T.next_reg), q |-> NoValue]
                [] expr.kind = "binary" ->
                     LET l == operand(T, 1)
                         r == operand(l.T, 2)
                         d == IF l.q = r.q
                              THEN Materialize(r.T, expr.args[2], "duplicate_value")
                              ELSE r
                         reg == d.T.next_reg
                         c == create_binary_op(allocate_reg(d.T), expr.opcode, l.q, d.q)
                     IN [T |-> Recomputed(AddQuantumOp(c.T, c.op), val, reg), q |-> NoValue]
                [] expr.kind = "binaryimm" ->
                     LET l == operand(T, 1)
                         reg == l.T.next_reg
                         c == create_binary_imm_op(allocate_reg(l.T), expr.opcode, l.q, expr.k)
                     IN [T |-> Recomputed(AddQuantumOp(c.T, c.op), val, reg), q |-> NoValue]
                [] OTHER -> [T |-> Raise(T, "NotImplementedError"), q |-> NoValue]

emit_value(T, val) == Materialize(T, val, "emit_value")

recompute(T, val) == Materialize(T, val, "recompute").T

duplicate_value(T, val) == Materialize(T, val, "duplicate_value")

\* a duplication that is left out
no_cloning_skipped(T, q_lhs, q_rhs, rhs) == [T |-> T, q |-> q_rhs]

\* if q_lhs is q_rhs: q_rhs = self.duplicate_value(rhs)
no_cloning(T, q_lhs, q_rhs, rhs) ==
    IF q_lhs = q_rhs THEN duplicate_value(T, rhs) ELSE [T |-> T, q |-> q_rhs]

\* self.val_info[op.results[0]] = ValueInfo(reg, 0, expr)
Record(T, res, reg, expr) ==
    [T EXCEPT !.val_info = (res :> ValueInfo(reg, 0, expr)) @@ @]

(***************************************************************************)
(* translate_op, one branch per kind of operation                          *)
(***************************************************************************)
op_constant(T, o) ==
    LET c == get_current_control(T)
        init_op == IF c.ctrl = NoControl
                   THEN QuantumOp("QuantumInitOp", << >>, NoControl, o.k)
                   ELSE QuantumOp("QuantumCInitOp", << >>, c.ctrl, o.k)
        reg == c.T.next_reg
        T1 == NameResult(AddQuantumOp(allocate_reg(c.T), init_op), reg)
    IN [Record(T1, o.res, reg, Expr("const", "", << >>, o.k))
          EXCEPT !.reg_version = (reg :> 0) @@ @]

op_binary(T, o) ==
    LET l == emit_value(T, o.args[1])
        r == emit_value(l.T, o.args[2])
        d == no_cloning(r.T, l.q, r.q, o.args[2])
        reg == d.T.next_reg
        c == create_binary_op(allocate_reg(d.T), o.opcode, l.q, d.q)
    IN IF r.T.err # "none" THEN r.T
       ELSE Record(NameResult(AddQuantumOp(c.T, c.op), reg), o.res, reg,
                   Expr("binary", o.opcode, o.args, 0))

op_cmpi(T, o) ==
    LET l == emit_value(T, o.args[1])
        r == emit_value(l.T, o.args[2])
        T1 == AddQuantumOp(r.T, QuantumOp("QCmpiOp", <<l.q, r.q>>, NoControl, o.k))
        reg == T1.next_reg
        T2 == NameResult(allocate_reg(T1), reg)
    IN IF r.T.err # "none" THEN r.T
       ELSE [Record(T2, o.res, reg, Expr("cmpi", "", o.args, o.k))
               EXCEPT !.reg_version = (reg :> 0) @@ @]

op_return(T, o) ==
    IF o.args # << >>
    THEN LET e == emit_value(T, o.args[1])
         IN IF e.T.err # "none" THEN e.T
            ELSE AddQuantumOp(e.T, QuantumOp("ReturnOp", <<e.q>>, NoControl, 0))
    ELSE AddQuantumOp(T, QuantumOp("ReturnOp", << >>, NoControl, 0))

op_binary_imm(T, o) ==
    LET l == emit_value(T, o.args[1])
        reg == l.T.next_reg
        c == create_binary_imm_op(allocate_reg(l.T), o.opcode, l.q, o.k)
    IN IF l.T.err # "none" THEN l.T
       ELSE [Record(NameResult(AddQuantumOp(c.T, c.op), reg), o.res, reg,
                    Expr("binaryimm", o.opcode, o.args, o.k))
               EXCEPT !.reg_version = (reg :> 0) @@ @]

\* cond_br up to the loop over true_block.ops: the condition is pushed
op_cond_br(T, o) ==
    LET e == emit_value(T, o.args[1])
    IN [T |-> IF e.T.err # "none" THEN e.T ELSE [e.T EXCEPT !.stack = Append(@, e.q)],
        cond_val |-> e.q]

\* cond_br between its two loops: pop, the NOT of the condition, push
op_cond_br_else(T, cond_val) ==
    LET T1 == [T EXCEPT !.stack = SubSeq(@, 1, Len(@) - 1)]
        T2 == AddQuantumOp(T1, QuantumOp("QNotOp", <<cond_val>>, NoControl, 0))
        inverted_reg == T2.next_reg
        T3 == [NameResult(allocate_reg(T2), inverted_reg)
                 EXCEPT !.reg_version = (inverted_reg :> 0) @@ @]
    IN [T3 EXCEPT !.stack = Append(@, LastValue(T3))]

\* a cond_br that leaves the inverted condition on the stack
cond_br_end_unpopped(T) == T

\* cond_br after the loop over false_block.ops
cond_br_end(T) == [T EXCEPT !.stack = SubSeq(@, 1, Len(@) - 1)]

(***************************************************************************)
(* translate_func, one branch per kind of operation of the entry block     *)
(***************************************************************************)
func_constant(T, o) ==
    LET reg == T.next_reg
        T1 == AddQuantumOp(allocate_reg(T), QuantumOp("QuantumInitOp", << >>, NoControl, o.k))
    IN NameResult(Record([T1 EXCEPT !.block[Len(T1.block)].hint = reg], o.res, reg,
                         Expr("const", "", << >>, o.k)), reg)

func_binary(T, o) ==
    LET l == emit_value(T, o.args[1])
        r == emit_value(l.T, o.args[2])
        d == no_cloning(r.T, l.q, r.q, o.args[2])
        reg == d.T.next_reg
        c == create_binary_op(allocate_reg(d.T), o.opcode, l.q, d.q)
    IN IF r.T.err # "none" THEN r.T
       ELSE Record(NameResult(AddQuantumOp(c.T, c.op), reg), o.res, reg,
                   Expr("binary", o.opcode, o.args, 0))

func_binary_imm(T, o) ==
    LET l == emit_value(T, o.args[1])
        reg == l.T.next_reg
        c == create_binary_imm_op(allocate_reg(l.T), o.opcode, l.q, o.k)
    IN IF l.T.err # "none" THEN l.T
       ELSE Record(NameResult(AddQuantumOp(c.T, c.op), reg), o.res, reg,
                   Expr("binaryimm", o.opcode, o.args, o.k))

func_cond_br(T, o) == op_cond_br(T, o)

\* pop; inverted_reg = allocate_reg(); false_ctrl = emit_value(cond); the NOT of
\* the condition; inverted_reg = allocate_reg() once more; push
func_cond_br_else(T, cond_val, cond) ==
    LET T1 == allocate_reg([T EXCEPT !.stack = SubSeq(@, 1, Len(@) - 1)])
        false_ctrl == emit_value(T1, cond)
        T2 == AddQuantumOp(false_ctrl.T, QuantumOp("QNotOp", <<cond_val>>, NoControl, 0))
        inverted_reg == T2.next_reg
        T3 == [NameResult(allocate_reg(T2), inverted_reg)
                 EXCEPT !.reg_version = (inverted_reg :> 0) @@ @]
    IN [T3 EXCEPT !.stack = Append(@, LastValue(T3))]

func_return(T, o) == op_return(T, o)

func_cmpi(T, o) ==
    LET l == emit_value(T, o.args[1])
        r == emit_value(l.T, o.args[2])
        reg == r.T.next_reg
        T1 == AddQuantumOp(allocate_reg(r.T), QuantumOp("QCmpiOp", <<l.q, r.q>>, NoControl, o.k))
    IN IF r.T.err # "none" THEN r.T
       ELSE NameResult(Record([T1 EXCEPT !.block[Len(T1.block)].hint = reg], o.res, reg,
                              Expr("cmpi", "", o.args, o.k)), reg)

(***************************************************************************)
(* The run of the translator: QuantumTranslator(module).translate() on one *)
(* function.  A frame is a loop over the operations of a block: the loop   *)
(* of translate_func over the entry block, or a loop of a cond_br branch   *)
(* over a successor block, whose operations translate_op handles.          *)
(***************************************************************************)
Frame(b, by, arm, owner, cond, cond_val, f) ==
    [b |-> b, pos |-> 1, by |-> by, arm |-> arm, owner |-> owner, cond |-> cond,
     cond_val |-> cond_val, f |-> f]

TFrame == UNCHANGED <<bvars, evars, gvars, lvars>>

TranslateAt(pc) ==
    /\ tpc = pc
    /\ frames = <<Frame(1, "func", "top", "none", NoValue, NoValue, 0)>>
    /\ current_block = << >>
    /\ emitted_under = << >>
    /\ control_stack = << >>
    /\ t_next_reg = 0
    /\ val_info = << >>
    /\ t_reg_version = << >>
    /\ reg_ssa = << >>
    /\ t_err = "none"
    /\ q_module = << >>

Top == frames[Len(frames)]

AtEnd == Top.pos > Len(module[Top.b])

CurrentOp == module[Top.b][Top.pos]

At(by, kind) ==
    /\ tpc = "translate"
    /\ ~AtEnd
    /\ Top.by = by
    /\ CurrentOp.kind = kind

\* the translator after a method returned or raised
Becomes(T) ==
    /\ current_block' = T.block
    /\ emitted_under' = T.under
    /\ control_stack' = T.stack
    /\ t_next_reg' = T.next_reg
    /\ val_info' = T.val_info
    /\ t_reg_version' = T.reg_version
    /\ reg_ssa' = T.reg_ssa
    /\ t_err' = T.err
    /\ UNCHANGED <<later_funcs, q_module>>
    /\ tpc' = IF T.err = "none" THEN tpc ELSE "error"
    /\ UNCHANGED module
    /\ TFrame

Advanced == [frames EXCEPT ![Len(frames)].pos = @ + 1]

\* an exception leaves the loop where it is
Handled(T) == Becomes(T) /\ frames' = IF T.err = "none" THEN Advanced ELSE frames

Entered_1(r, owner) ==
    /\ Becomes(r.T)
    /\ frames' = IF r.T.err # "none" THEN frames
                 ELSE Append(Advanced, Frame(CurrentOp.t, "op", "then", owner,
                                             CurrentOp.args[1], r.cond_val, CurrentOp.f))

TFuncConstant == At("func", "const") /\ Handled(func_constant(Translator, CurrentOp))

TFuncBinary == At("func", "binary") /\ Handled(func_binary(Translator, CurrentOp))

TFuncBinaryImm == At("func", "binaryimm") /\ Handled(func_binary_imm(Translator, CurrentOp))

TFuncCmpi == At("func", "cmpi") /\ Handled(func_cmpi(Translator, CurrentOp))

TFuncReturn == At("func", "return") /\ Handled(func_return(Translator, CurrentOp))

TFuncCondBr == At("func", "cond_br") /\ Entered_1(func_cond_br(Translator, CurrentOp), "func")

TOpConstant == At("op", "const") /\ Handled(op_constant(Translator, CurrentOp))

TOpBinary == At("op", "binary") /\ Handled(op_binary(Translator, CurrentOp))

TOpBinaryImm == At("op", "binaryimm") /\ Handled(op_binary_imm(Translator, CurrentOp))

TOpCmpi == At("op", "cmpi") /\ Handled(op_cmpi(Translator, CurrentOp))

TOpReturn == At("op", "return") /\ Handled(op_return(Translator, CurrentOp))

TOpCondBr == At("op", "cond_br") /\ Entered_1(op_cond_br(Translator, CurrentOp), "op")

SupportedKinds == {"const", "binary", "binaryimm", "cmpi", "cond_br", "return"}

\* else: raise NotImplementedError(f"Unsupported op {op.name}"), in translate_func
TFuncUnsupported ==
    /\ tpc = "translate" /\ ~AtEnd /\ Top.by = "func"
    /\ CurrentOp.kind \notin SupportedKinds
    /\ Handled(Raise(Translator, "NotImplementedError"))

\* the same in translate_op
TOpUnsupported ==
    /\ tpc = "translate" /\ ~AtEnd /\ Top.by = "op"
    /\ CurrentOp.kind \notin SupportedKinds
    /\ Handled(Raise(Translator, "NotImplementedError"))

ElseFrame == [frames EXCEPT ![Len(frames)] =
                 Frame(Top.f, "op", "else", Top.owner, Top.cond, Top.cond_val, 0)]

\* the loop over true_block.ops of a cond_br of translate_func is over
TFuncCondBrElse ==
    /\ tpc = "translate" /\ AtEnd /\ Top.arm = "then" /\ Top.owner = "func"
    /\ Becomes(func_cond_br_else(Translator, Top.cond_val, Top.cond))
    /\ frames' = ElseFrame

\* the loop over true_block.ops of a cond_br of translate_op is over
TOpCondBrElse ==
    /\ tpc = "translate" /\ AtEnd /\ Top.arm = "then" /\ Top.owner = "op"
    /\ Becomes(op_cond_br_else(Translator, Top.cond_val))
    /\ frames' = ElseFrame

\* the loop over false_block.ops is over: self.control_stack.pop()
TCondBrEnd ==
    /\ tpc = "translate" /\ AtEnd /\ Top.arm = "else"
    /\ Becomes(cond_br_end(Translator))
    /\ frames' = SubSeq(frames, 1, Len(frames) - 1)

\* the loop of translate_func is over: return FuncOp(...), and translate()
\* adds the function to self.q_module
TFuncEnd ==
    /\ tpc = "translate" /\ AtEnd /\ Top.arm = "top"
    /\ tpc' = IF later_funcs = << >> THEN "done" ELSE "next"
    /\ q_module' = Append(q_module, current_block)
    /\ UNCHANGED <<module, frames, current_block, emitted_under, control_stack,
                   t_next_reg, val_info, t_reg_version, reg_ssa, t_err, later_funcs>>
    /\ TFrame

\* the next iteration of `for func in self.module.ops`: translate_func(func)
\* starts with self.current_block = Block() and touches no other attribute
TNextFunc ==
    /\ tpc = "next"
    /\ module' = Head(later_funcs)
    /\ later_funcs' = Tail(later_funcs)
    /\ current_block' = << >>
    /\ emitted_under' = << >>
    /\ frames' = <<Frame(1, "func", "top", "none", NoValue, NoValue, 0)>>
    /\ tpc' = "translate"
    /\ UNCHANGED <<control_stack, t_next_reg, val_info, t_reg_version, reg_ssa, t_err,
                   q_module>>
    /\ TFrame

TStep ==
    \/ TFuncConstant \/ TFuncBinary \/ TFuncBinaryImm \/ TFuncCmpi \/ TFuncReturn
    \/ TFuncCondBr \/ TFuncCondBrElse
    \/ TOpConstant \/ TOpBinary \/ TOpBinaryImm \/ TOpCmpi \/ TOpReturn
    \/ TOpCondBr \/ TOpCondBrElse
    \/ TFuncUnsupported \/ TOpUnsupported
    \/ TCondBrEnd \/ TFuncEnd \/ TNextFunc

(***************************************************************************)
(* The interpreter of test_mlir_equivalence_to_fix.py on the translated    *)
(* function: CustomFunctions, and func.return ending the call.             *)
(***************************************************************************)
PlainClasses == {"QAddiOp", "QSubiOp", "QMuliOp"}

PlainImmClasses == {"QAddiImmOp", "QSubiImmOp", "QMuliImmOp"}

ControlledClasses == {"CQAddiOp", "CQSubiOp", "CQMuliOp", "CQDivSOp"}

ControlledImmClasses == {"CQAddiImmOp", "CQSubiImmOp", "CQMuliImmOp"}

OpcodeOf(name) ==
    CASE name \in {"QAddiOp", "QAddiImmOp", "CQAddiOp", "CQAddiImmOp"} -> "add"
      [] name \in {"QSubiOp", "QSubiImmOp", "CQSubiOp", "CQSubiImmOp"} -> "sub"
      [] name \in {"QMuliOp", "QMuliImmOp", "CQMuliOp", "CQMuliImmOp"} -> "mul"
      [] name \in {"QDivSOp", "QDivSImmOp", "CQDivSOp", "CQDivSImmOp"} -> "div"

\* run_cqaddi_imm, run_cqsubi_imm, run_cqmuli_imm: lhs op imm if ctrl else lhs
run_cq_imm(opcode, lhs, imm, ctrl) == IF ctrl # 0 THEN Arith(opcode, lhs, imm) ELSE lhs

\* run_cinit: value if ctrl else 0
run_cinit(ctrl, value) == IF ctrl # 0 THEN value ELSE 0

RECURSIVE RunQuantum(_, _, _)
RunQuantum(block, pos, env) ==
    IF pos > Len(block) THEN [status |-> "fell off", value |-> 0]
    ELSE LET o == block[pos]
             arg(k) == env[o.operands[k]]
             bind(v) == RunQuantum(block, pos + 1, Append(env, v))
         IN CASE o.name = "QuantumInitOp" -> bind(o.k)
              [] o.name = "QuantumCInitOp" -> bind(run_cinit(env[o.ctrl], o.k))
              [] o.name \in PlainClasses \cup {"QDivSOp"} ->
                    IF Undefined \in {arg(1), arg(2)} THEN TypeError
                    ELSE bind(Arith(OpcodeOf(o.name), arg(1), arg(2)))
              [] o.name \in PlainImmClasses \cup {"QDivSImmOp"} ->
                    IF arg(1) = Undefined THEN TypeError
                    ELSE bind(Arith(OpcodeOf(o.name), arg(1), o.k))
              [] o.name \in ControlledImmClasses ->
                    bind(run_cq_imm(OpcodeOf(o.name), arg(1), o.k, env[o.ctrl]))
              [] o.name = "CQDivSImmOp" ->
                    bind(IF env[o.ctrl] # 0 /\ o.k # 0 THEN FloorDiv(arg(1), o.k)
                                                       ELSE arg(1))
              [] o.name = "QCmpiOp" -> bind(Compare(o.k, arg(1), arg(2)))
              [] o.name = "QAndOp" -> bind(BoolInt(arg(1) # 0 /\ arg(2) # 0))
              [] o.name = "QNotOp" -> bind(BoolInt(arg(1) = 0))
              [] o.name = "ReturnOp" -> [status |-> "returned", value |-> arg(1)]
              [] OTHER -> [status |-> "InterpretationError", value |-> 0]

QuantumResult(block) == RunQuantum(block, 1, << >>)

(***************************************************************************)
(* Properties of the translator                                            *)
(***************************************************************************)
\* the function is int a, b; if (a pred b) x = e1; else x = e2; return x; with
\* no if inside e1 or e2
SimpleIf == Len(module) = 7 /\ \A b \in 4 .. 7 : module[b] = << >>

\* C7: for if (c) x = e1 else x = e2 the sequence the translator emitted,
\* run by the interpreter, returns the value of e1 when c is true and the
\* value of e2 when c is false: what the classical function returns.
BranchLinearizationEquivalent ==
    (tpc = "done" /\ SimpleIf) => QuantumResult(current_block) = ClassicalResult(module)

RECURSIVE IsAndFold(_, _, _)
\* q is ((stack[1] AND stack[2]) AND ...) AND stack[n]
IsAndFold(q, stack, n) ==
    IF n = 1 THEN q = stack[1]
    ELSE /\ q \in DOMAIN current_block
         /\ current_block[q].name = "QAndOp"
         /\ current_block[q].operands[2] = stack[n]
         /\ IsAndFold(current_block[q].operands[1], stack, n - 1)

UnderControl(i) ==
    /\ current_block[i].ctrl # NoControl
    /\ IsAndFold(current_block[i].ctrl, emitted_under[i], Len(emitted_under[i]))

\* C8: every operation emitted while the control stack was not empty is in
\* controlled form, its control the left fold by AND of the stack.
EmittedControlled ==
    \A i \in DOMAIN current_block : emitted_under[i] # << >> => UnderControl(i)

ArithmeticClasses == PlainClasses \cup ControlledClasses \cup {"QDivSOp"}

RegisterOf(q) == current_block[q].hint

\* the operations of the function, of every block of it
SourceOps == UNION {{module[b][i] : i \in DOMAIN module[b]} : b \in DOMAIN module}

\* the classical binary operations of the function being translated, translated
\* so far, whose operands are one value
SelfOperations ==
    {val \in DOMAIN val_info :
        /\ \E o \in SourceOps : o.res = val
        /\ val_info[val].expr.kind = "binary"
        /\ val_info[val].expr.args[1] = val_info[val].expr.args[2]}

\* the quantum operation that produced classical value val
Producer(val) == current_block[reg_ssa[val_info[val].reg]]

\* C10: no arithmetic binary operation the translator emitted reads one
\* register as both operands, and where the two source operands were one value
\* the right operand is a duplicate (add-immediate 0, in a register of its own)
\* of the left.
NoCloningEmitted ==
    /\ \A i \in DOMAIN current_block :
          current_block[i].name \in ArithmeticClasses
              => RegisterOf(current_block[i].operands[1])
                     # RegisterOf(current_block[i].operands[2])
    /\ \A val \in SelfOperations :
          LET dup == current_block[Producer(val).operands[2]]
          IN /\ dup.name = "QAddiImmOp" /\ dup.k = 0
             /\ dup.operands = <<Producer(val).operands[1]>>

\* x = a + a inside an arm has been translated, and the translation is over
NoCloningWitness ==
    /\ tpc = "done"
    /\ \E val \in SelfOperations : Producer(val).name \in ControlledClasses

\* every class of binary and binary-immediate arithmetic operation
LoweredClasses ==
    ArithmeticClasses \cup PlainImmClasses \cup ControlledImmClasses
        \cup {"QDivSImmOp", "CQDivSImmOp"}

\* the classical binary and binary-immediate operations translated so far
LoweredValues ==
    {val \in DOMAIN val_info : val_info[val].expr.kind \in {"binary", "binaryimm"}}

ImmDivisionClasses == {"QDivSImmOp", "CQDivSImmOp"}

\* C12 as stated: the translator emits no quantum operation for an immediate
\* division by 0, and the translation of a function that holds one does not
\* end with a translated function.
DivisionByZeroRejectedAtTranslation ==
    /\ \A i \in DOMAIN current_block :
          current_block[i].name \in ImmDivisionClasses => current_block[i].k # 0
    /\ tpc = "done" =>
          \A o \in SourceOps : ~(o.kind = "binaryimm" /\ o.opcode = "div" /\ o.k = 0)

\* the values that the operations of the function define
DefinedValues == {o.res : o \in SourceOps} \ {NoValue}

UsesUndefinedValue(o) == \E k \in DOMAIN o.args : o.args[k] \notin DefinedValues

BinaryBaseClasses == ArithmeticClasses

\* C15 as stated: a binary operation of the dialect whose result register is
\* not the register of its lhs operand is never part of the function being
\* built unless the construction was rejected with a verification error, and
\* no function that holds one is returned.
WriteInPlaceVerified ==
    \A i \in DOMAIN current_block :
        (/\ current_block[i].name \in BinaryBaseClasses
         /\ RegisterOf(i) # RegisterOf(current_block[i].operands[1]))
            => t_err = "VerifyException" /\ tpc # "done"

\* the function is one block of constants, binary and binary-immediate
\* operations and a return, every operand a value the block defines
StraightLine ==
    /\ Len(module) = 1
    /\ \A o \in SourceOps :
          o.kind \in {"const", "binary", "binaryimm", "return"} /\ ~UsesUndefinedValue(o)

\* the constant that value val of the entry block is
ConstantOf(val) ==
    LET i == CHOOSE i \in DOMAIN module[1] : module[1][i].res = val IN module[1][i].k

\* a register division whose classical value is computed by arith.divsi of
\* the interpreter library, outside this repository: a division by zero, or
\* one whose quotient depends on the direction of rounding
LibraryRounding(o) ==
    /\ o.kind = "binary" /\ o.opcode = "div"
    /\ LET l == ConstantOf(o.args[1])
           r == ConstantOf(o.args[2])
       IN r = 0 \/ FloorDiv(l, r) * r # l

MAX_UNROLL == 10

\* c_ast.py: expressions
IntegerLiteral(value) == [e |-> "IntegerLiteral", value |-> value]

DeclRef(name) == [e |-> "DeclRef", name |-> name]

BinaryOperator(opcode, lhs, rhs) ==
    [e |-> "BinaryOperator", opcode |-> opcode, lhs |-> lhs, rhs |-> rhs]

BinaryOperatorWithImmediate(opcode, lhs, rhs) ==
    [e |-> "BinaryOperatorWithImmediate", opcode |-> opcode, lhs |-> lhs, rhs |-> rhs]

\* c_ast.py: statements
CompoundStmt(stmts) == [stmts |-> stmts, is_none |-> FALSE]

\* else_body = None
NoBody == [stmts |-> << >>, is_none |-> TRUE]

VarDecl(name, init) == [kind |-> "VarDecl", name |-> name, value |-> init]

AssignStmt(name, value) == [kind |-> "AssignStmt", name |-> name, value |-> value]

ReturnStmt(value) == [kind |-> "ReturnStmt", value |-> value]

IfStmt(condition, then_body, else_body) ==
    [kind |-> "IfStmt", condition |-> condition, then_body |-> then_body,
     else_body |-> else_body]

\* the statement lower_for reads: init, condition, increment, body
ForStmt(init, condition, increment, body) ==
    [kind |-> "ForStmt", init |-> init, condition |-> condition,
     increment |-> increment, body |-> body]

\* the operations of the generated blocks
GenOp(op, args, value, t, f) == [op |-> op, args |-> args, value |-> value, t |-> t, f |-> f]

Terminators == {"cf.cond_br", "func.return"}

\* self.current_block.add_op(op)
add_op(G, op) == [G EXCEPT !.blocks[G.cur] = Append(@, op)]

\* the result of the operation added last to the current block
LastResult(G) == <<G.cur, Len(G.blocks[G.cur])>>

\* block = Block(); self.function_region.add_block(block)
add_block(G) == [G EXCEPT !.blocks = Append(@, << >>)]

\* process_expression on a literal, a variable, a comparison or an arithmetic
\* operation of a variable and a literal
process_expression(G, expr) ==
    CASE expr.e = "IntegerLiteral" ->
            LET G1 == add_op(G, GenOp("arith.constant", << >>, expr.value, 0, 0))
            IN [G |-> G1, val |-> LastResult(G1)]
      [] expr.e = "DeclRef" ->
            IF expr.name \in DOMAIN G.symbol_table
            THEN [G |-> G, val |-> G.symbol_table[expr.name]]
            ELSE [G |-> [G EXCEPT !.err = "ValueError"], val |-> <<0, 0>>]
      [] expr.e = "BinaryOperatorWithImmediate" /\ expr.opcode = "+" ->
            LET lhs_val == G.symbol_table[expr.lhs.name]
                G1 == add_op(G, GenOp("iarith.addi_imm", <<lhs_val>>, expr.rhs.value, 0, 0))
            IN [G |-> G1, val |-> LastResult(G1)]
      [] expr.e = "BinaryOperatorWithImmediate" /\ expr.opcode = "<" ->
            LET lhs_val == G.symbol_table[expr.lhs.name]
                G1 == add_op(G, GenOp("arith.constant", << >>, expr.rhs.value, 0, 0))
                G2 == add_op(G1, GenOp("arith.cmpi", <<lhs_val, LastResult(G1)>>, 0, 0, 0))
            IN [G |-> G2, val |-> LastResult(G2)]

\* self.symbol_table[name] = self.process_expression(value)
Assign(G, name, value) ==
    LET r == process_expression(G, value)
    IN [r.G EXCEPT !.symbol_table = (name :> r.val) @@ @]

\* cond_val = process_expression(condition); two new blocks; the cond_br to them
Branch(G, condition) ==
    LET r == process_expression(G, condition)
        then_block == Len(r.G.blocks) + 1
        else_block == Len(r.G.blocks) + 2
        G1 == add_block(add_block(r.G))
    IN [G |-> add_op(G1, GenOp("cf.cond_br", <<r.val>>, 0, then_block, else_block)),
        then_block |-> then_block, else_block |-> else_block]

RECURSIVE _lower_block(_, _, _)
RECURSIVE lower_if(_, _, _)
RECURSIVE lower_for(_, _, _)
RECURSIVE Unroll(_, _, _, _, _)

\* while i < len(stmts): ...; an exception of process_expression ends it
_lower_block(G, stmts, i) ==
    IF i > Len(stmts) \/ G.err # "none" THEN G
    ELSE LET stmt == stmts[i]
             tail == SubSeq(stmts, i + 1, Len(stmts))
         IN CASE stmt.kind = "IfStmt" -> lower_if(G, stmt, tail)
              [] stmt.kind = "ForStmt" -> lower_for(G, stmt, tail)
              [] stmt.kind \in {"VarDecl", "AssignStmt"} ->
                    _lower_block(Assign(G, stmt.name, stmt.value), stmts, i + 1)
              [] stmt.kind = "ReturnStmt" ->
                    LET r == process_expression(G, stmt.value)
                    IN add_op(r.G, GenOp("func.return", <<r.val>>, 0, 0, 0))

lower_if(G, stmt, tail) ==
    IF stmt.condition.e = "BinaryOperator" /\ stmt.condition.opcode = "&&"
    THEN LET nested_if == IfStmt(stmt.condition.rhs, stmt.then_body, NoBody)
             outer_if == IfStmt(stmt.condition.lhs, CompoundStmt(<<nested_if>>),
                                stmt.else_body)
         IN lower_if(G, outer_if, tail)
    ELSE IF stmt.condition.e = "BinaryOperator" /\ stmt.condition.opcode = "||"
    THEN lower_if(lower_if(G, IfStmt(stmt.condition.lhs, stmt.then_body, NoBody), tail),
                  IfStmt(stmt.condition.rhs, stmt.then_body, NoBody), tail)
    ELSE LET b == Branch(G, stmt.condition)
             original_symtable == b.G.symbol_table
             G1 == _lower_block([b.G EXCEPT !.cur = b.then_block],
                                stmt.then_body.stmts \o tail, 1)
             G2 == [G1 EXCEPT !.symbol_table = original_symtable, !.cur = b.else_block]
         IN IF stmt.else_body.is_none THEN _lower_block(G2, tail, 1)
            ELSE _lower_block(G2, stmt.else_body.stmts \o tail, 1)

\* for _ in range(MAX_UNROLL): the body and the increment in then_block, the
\* condition again, the tail in the new else block; an exception ends the loop
Unroll(G, stmt, tail, then_block, k) ==
    IF k = 0 \/ G.err # "none" THEN G
    ELSE LET G1 == _lower_block([G EXCEPT !.cur = then_block], stmt.body.stmts, 1)
             G2 == Assign(G1, stmt.increment.name, stmt.increment.value)
             b == Branch(G2, stmt.condition)
             G3 == _lower_block([b.G EXCEPT !.cur = b.else_block], tail, 1)
         IN Unroll(G3, stmt, tail, b.then_block, k - 1)

lower_for(G, stmt, tail) ==
    LET b == Branch(Assign(G, stmt.init.name, stmt.init.value), stmt.condition)
        G1 == _lower_block([b.G EXCEPT !.cur = b.else_block], tail, 1)
    IN Unroll(G1, stmt, tail, b.then_block, MAX_UNROLL)

\* generate_function(func): an empty symbol table, a region of one entry block
generate_function(body) ==
    _lower_block([blocks |-> << << >> >>, cur |-> 1, symbol_table |-> << >>,
                  err |-> "none"], body.stmts, 1)

(***************************************************************************)
(* The functions handed to the generator, and the run of a generated       *)
(* function from its entry block.                                          *)
(***************************************************************************)
\* the statements B, E, T and the body of a loop
ThenStmt == AssignStmt("x", IntegerLiteral(11))

ElseStmt == AssignStmt("x", IntegerLiteral(12))

TailStmt == AssignStmt("x", IntegerLiteral(13))

BodyStmt == AssignStmt("y", IntegerLiteral(14))

Conditions ==
    {DeclRef("a"), BinaryOperator("&&", DeclRef("a"), DeclRef("b")),
     BinaryOperator("||", DeclRef("a"), DeclRef("b"))}

\* int a = A; int b = B; int x = 0; if (c) B [else E]; T; return x;
IfFunction(A, B, c, else_body) ==
    CompoundStmt(<<VarDecl("a", IntegerLiteral(A)), VarDecl("b", IntegerLiteral(B)),
                   VarDecl("x", IntegerLiteral(0)),
                   IfStmt(c, CompoundStmt(<<ThenStmt>>), else_body),
                   TailStmt, ReturnStmt(DeclRef("x"))>>)

\* int x = 0; for (int i = 0; i < N; i = i + 1) body; T; return x;
ForFunction(N) ==
    CompoundStmt(<<VarDecl("x", IntegerLiteral(0)),
                   ForStmt(VarDecl("i", IntegerLiteral(0)),
                           BinaryOperatorWithImmediate("<", DeclRef("i"), IntegerLiteral(N)),
                           AssignStmt("i", BinaryOperatorWithImmediate("+", DeclRef("i"),
                                                                      IntegerLiteral(1))),
                           CompoundStmt(<<BodyStmt>>)),
                   TailStmt, ReturnStmt(DeclRef("x"))>>)

\* the loops run: none, two, and one round more than the generator unrolls
LoopLimits == {0, 2, MAX_UNROLL + 1}

Functions ==
    {IfFunction(A, B, c, else_body) :
        A \in {0, 1}, B \in {0, 1}, c \in Conditions,
        else_body \in {NoBody, CompoundStmt(<<ElseStmt>>)}}
    \cup {ForFunction(N) : N \in LoopLimits}

LFrame == UNCHANGED <<bvars, evars, tvars, gvars>>

\* func_op = generator.generate_function(func)
LGenerate ==
    /\ xpc = "generate"
    /\ region' = generate_function(program).blocks
    /\ xpc' = "run"
    /\ UNCHANGED <<program, x_block, x_pos, x_env, trace>>
    /\ LFrame

AtOp == x_pos <= Len(region[x_block])

NextOp == region[x_block][x_pos]

XAt(ops) == xpc = "run" /\ AtOp /\ NextOp.op \in ops

\* the operation run binds its result
Bound(v) ==
    /\ x_env' = (<<x_block, x_pos>> :> v) @@ x_env
    /\ x_pos' = x_pos + 1
    /\ trace' = Append(trace, NextOp)
    /\ UNCHANGED <<program, region, xpc, x_block>>
    /\ LFrame

XConstant == XAt({"arith.constant"}) /\ Bound(NextOp.value)

XAddiImm == XAt({"iarith.addi_imm"}) /\ Bound(x_env[NextOp.args[1]] + NextOp.value)

\* arith.cmpi slt
XCmpi ==
    /\ XAt({"arith.cmpi"})
    /\ Bound(IF x_env[NextOp.args[1]] < x_env[NextOp.args[2]] THEN 1 ELSE 0)

\* the branch goes to the first operation of the successor
XCondBr ==
    /\ XAt({"cf.cond_br"})
    /\ x_block' = IF x_env[NextOp.args[1]] # 0 THEN NextOp.t ELSE NextOp.f
    /\ x_pos' = 1
    /\ trace' = Append(trace, NextOp)
    /\ UNCHANGED <<program, region, xpc, x_env>>
    /\ LFrame

XReturn ==
    /\ XAt({"func.return"})
    /\ xpc' = "returned"
    /\ trace' = Append(trace, NextOp)
    /\ UNCHANGED <<program, region, x_block, x_pos, x_env>>
    /\ LFrame

\* the block has no operation left and no terminator was run
XFallOff ==
    /\ xpc = "run" /\ ~AtOp
    /\ xpc' = "stuck"
    /\ UNCHANGED <<program, region, x_block, x_pos, x_env, trace>>
    /\ LFrame

LStep == LGenerate \/ XConstant \/ XAddiImm \/ XCmpi \/ XCondBr \/ XReturn \/ XFallOff

(***************************************************************************)
(* Properties of the generated control flow                                *)
(***************************************************************************)
\* how many times the run executed the statement x = <literal>
Runs(stmt) ==
    Cardinality({i \in DOMAIN trace :
        trace[i].op = "arith.constant" /\ trace[i].value = stmt.value.value})

\* the positions in the trace of the executions of a statement
RunsAt(stmt) ==
    {i \in DOMAIN trace :
        trace[i].op = "arith.constant" /\ trace[i].value = stmt.value.value}

Finished == xpc \in {"returned", "stuck"}

IsIfFunction == Len(program.stmts) = 6

IsForFunction == Len(program.stmts) = 4

TheIf == program.stmts[4]

\* the values of int a and int b
ValueOfA == program.stmts[1].value.value # 0

ValueOfB == program.stmts[2].value.value # 0

IfOn(opcode) ==
    /\ IsIfFunction
    /\ TheIf.condition.e = "BinaryOperator"
    /\ TheIf.condition.opcode = opcode

\* every block is not empty and its terminator is its last operation and its
\* only one
WellTerminated ==
    \A b \in DOMAIN region :
        /\ region[b] # << >>
        /\ \A i \in DOMAIN region[b] :
              region[b][i].op \in Terminators <=> i = Len(region[b])

\* C28: a run of the function generated for if (a && b) B else E; T executes
\* B exactly when a and b are true, E exactly when a && b is false, and T
\* once, after B or E.
AndLowering ==
    (Finished /\ IfOn("&&") /\ ~TheIf.else_body.is_none) =>
        /\ Runs(ThenStmt) = (IF ValueOfA /\ ValueOfB THEN 1 ELSE 0)
        /\ Runs(ElseStmt) = (IF ValueOfA /\ ValueOfB THEN 0 ELSE 1)
        /\ Runs(TailStmt) = 1
        /\ \A t \in RunsAt(TailStmt), s \in RunsAt(ThenStmt) \cup RunsAt(ElseStmt) : s < t

\* the same, of the runs in which a is false or b is true
AndLoweringOuter ==
    (Finished /\ IfOn("&&") /\ ~TheIf.else_body.is_none /\ (~ValueOfA \/ ValueOfB)) =>
        /\ Runs(ThenStmt) = (IF ValueOfA /\ ValueOfB THEN 1 ELSE 0)
        /\ Runs(ElseStmt) = (IF ValueOfA /\ ValueOfB THEN 0 ELSE 1)
        /\ Runs(TailStmt) = 1
        /\ \A t \in RunsAt(TailStmt), s \in RunsAt(ThenStmt) \cup RunsAt(ElseStmt) : s < t

\* C29: the function generated for if (a || b) B; T has blocks that end in
\* their one terminator, and a run of it executes B at most once and only
\* when a or b is true, T once, and no T before B.
OrLowering ==
    (IfOn("||") /\ TheIf.else_body.is_none) =>
        /\ xpc # "generate" => WellTerminated
        /\ Finished =>
              /\ Runs(ThenStmt) <= 1
              /\ Runs(ThenStmt) = 1 => ValueOfA \/ ValueOfB
              /\ Runs(TailStmt) = 1
              /\ \A t \in RunsAt(TailStmt), s \in RunsAt(ThenStmt) : s < t

\* the executions of B alone
OrLoweringRuns ==
    (Finished /\ IfOn("||") /\ TheIf.else_body.is_none) =>
        /\ Runs(ThenStmt) <= 1
        /\ Runs(ThenStmt) = 1 => ValueOfA \/ ValueOfB
        /\ Runs(TailStmt) = 1

\* C30: the function generated for a for loop followed by T has no block that
\* is empty or without a terminator, and a run of it executes the body at most
\* MAX_UNROLL times, T once after the loop, and ends at a return.
ForLowering ==
    IsForFunction =>
        /\ xpc # "generate" => WellTerminated
        /\ Finished =>
              /\ xpc = "returned"
              /\ Runs(BodyStmt) <= MAX_UNROLL
              /\ Runs(TailStmt) = 1
              /\ \A t \in RunsAt(TailStmt), s \in RunsAt(BodyStmt) : s < t

\* the same, of the runs that leave the loop within MAX_UNROLL rounds
ForLoweringBounded ==
    (Finished /\ IsForFunction /\ program.stmts[2].condition.rhs.value <= MAX_UNROLL) =>
        /\ xpc = "returned"
        /\ Runs(BodyStmt) = program.stmts[2].condition.rhs.value
        /\ Runs(TailStmt) = 1
        /\ \A t \in RunsAt(TailStmt), s \in RunsAt(BodyStmt) : s < t

\* the plain if: B when a, E when not a, T once after it
PlainIfLowering ==
    (Finished /\ IsIfFunction /\ TheIf.condition.e = "DeclRef") =>
        /\ WellTerminated
        /\ xpc = "returned"
        /\ Runs(ThenStmt) = (IF ValueOfA THEN 1 ELSE 0)
        /\ Runs(ElseStmt) = (IF ~ValueOfA /\ ~TheIf.else_body.is_none THEN 1 ELSE 0)
        /\ Runs(TailStmt) = 1

(***************************************************************************)
(* Producers of register versions                                          *)
(***************************************************************************)
\* the operations of the translated function that carry a register name q{reg}_0
NamedValues == {q \in DOMAIN current_block : RegisterOf(q) # None}

\* the operations of the enforced function that carry reg_id and reg_version
VersionedOps(ops) == {i \in Indices(ops) : HasReg(OpAt(ops, i))}

TranslatorSingleProducer ==
    \A p, q \in NamedValues : p # q => RegisterOf(p) # RegisterOf(q)

EnforceSingleProducer ==
    \A i, j \in VersionedOps(new_block) :
        i # j => Key(OpAt(new_block, i)) # Key(OpAt(new_block, j))

RegistersNamed == {RegisterOf(q) : q \in NamedValues}

\* the register of the first named operation of the function
FirstRegister == RegisterOf(SetMin(NamedValues))

\* translate_func was entered and has translated nothing yet
FunctionEntered == tpc = "translate" /\ current_block = << >> /\ Len(frames) = 1

\* C23: whatever functions of the module were translated before it, a
\* function is translated from the allocator state of a translator of its
\* own (next_reg = 0 on entry), and its operations have the register ids they
\* have when the function is translated alone: the first named one has id 0.
OwnRegisterNamespace ==
    /\ FunctionEntered /\ Top.pos = 1 => t_next_reg = 0
    /\ NamedValues # {} => FirstRegister = 0

\* the same, of the first function of a module only
FirstFunctionNamespace == q_module = << >> => OwnRegisterNamespace

\* the second function of a module is translated and none of its operations
\* has register 0
SharedAllocator ==
    /\ q_module # << >>
    /\ tpc = "done"
    /\ NamedValues # {}
    /\ 0 \notin RegistersNamed
    /\ Len(q_module) = 2

(***************************************************************************)
(* The backend and the interpreter on a controlled operation               *)
(***************************************************************************)
\* the controlled primitives generate_circuit calls for CQAddiImmOp,
\* CQSubiImmOp and CQMuliImmOp, and the opcode of each
ImmediateCalls == {"addi", "subi", "muli"}

OpcodeOfCall(op) ==
    CASE op = "addi" -> "add"
      [] op = "subi" -> "sub"
      [] op = "muli" -> "mul"

\* what the interpreter binds to the result of the operation of the call
Interpreted == run_cq_imm(OpcodeOfCall(bcall.op), bcall.a, bcall.b, bcall.ctrl)

\* C27: the register a controlled immediate primitive returned decodes to the
\* value the interpreter gives the result of the controlled operation, wrapped
\* to the bit width, for control 1 and for control 0.
ControlledBackendAgrees ==
    (bpc = "done" /\ bcall.controlled /\ bcall.op \in ImmediateCalls)
        => /\ circuit.err = "none"
           /\ Measured(bcall.out) = Twos(Interpreted)

\* the same, of the calls with the control qubit in state 1 only
ControlledBackendAgreesOnTrue ==
    (bpc = "done" /\ bcall.controlled /\ bcall.op \in ImmediateCalls /\ bcall.ctrl = 1)
        => /\ circuit.err = "none"
           /\ Measured(bcall.out) = Twos(Interpreted)

(***************************************************************************)
(* The enforcement pass is total                                           *)
(***************************************************************************)
\* C26: enforce_constraints raises on no block: whatever operations of the
\* translator the block holds, and whatever operand has to be cloned, the call
\* does not end with an exception.
EnforceTotal == epc # "error"

\* the same, of the blocks of init, binary, immediate and return operations
EnforceTotalOnArithmetic ==
    (\A i \in Indices(orig_ops) :
        OpAt(orig_ops, i).name \notin UnaryControlNames \cup BinaryControlNames)
        => epc # "error"

(***************************************************************************)
(* The order in which a cond_br is linearized                              *)
(***************************************************************************)
\* the NOTs emitted: one is emitted between the two arms of a cond_br
Nots == {n \in DOMAIN current_block : current_block[n].name = "QNotOp"}

\* the condition a NOT inverts
ConditionOf(n) == current_block[n].operands[1]

\* the depth of the control stack around the cond_br of NOT n
DepthOf(n) == Len(emitted_under[n])

\* the operations emitted with value c on the control stack at depth d + 1
EmittedWith(c, d) ==
    {i \in DOMAIN current_block :
        Len(emitted_under[i]) > d /\ emitted_under[i][d + 1] = c}

ThenOps(n) == EmittedWith(ConditionOf(n), DepthOf(n))

ElseOps(n) == EmittedWith(n, DepthOf(n))

\* the compares of the function translated so far
ComparesTranslated ==
    {val \in DOMAIN val_info :
        val_info[val].expr.kind = "cmpi" /\ \E o \in SourceOps : o.res = val}

\* the cond_br whose NOT is n is linearized in order
LinearizedInOrder(n) ==
    /\ current_block[ConditionOf(n)].name = "QCmpiOp"
    /\ Cardinality({m \in Nots : ConditionOf(m) = ConditionOf(n)}) = 1
    /\ \A i \in ThenOps(n) : ConditionOf(n) < i /\ i < n
    /\ \A i \in ElseOps(n) : n < i
    /\ \A i \in DOMAIN current_block :
          ConditionOf(n) < i /\ i < n => i \in ThenOps(n)
    \* a cond_br of the entry block is its last operation
    /\ DepthOf(n) = 0 => \A i \in DOMAIN current_block : n < i => i \in ElseOps(n)

\* every condition was computed by one compare
ComputedOnce ==
    Cardinality({q \in DOMAIN current_block : current_block[q].name = "QCmpiOp"})
        = Cardinality(ComparesTranslated)

\* the control stack holds one condition for every arm being translated
StackBalanced == Len(control_stack) = Len(frames) - 1

\* C25: while a function is translated without an error, every condition is
\* computed by one compare; the operations of the then-arm of a cond_br, all
\* emitted with the condition on the control stack, follow the compare and
\* precede the one NOT of the condition; the operations of the else-arm, all
\* emitted with the NOT on the stack, follow the NOT; the control stack after
\* the cond_br is the stack before it.
CondBrLinearized ==
    tpc \in {"translate", "next", "done"} =>
        /\ ComputedOnce
        /\ \A n \in Nots : LinearizedInOrder(n)
        /\ tpc = "translate" => StackBalanced
        /\ tpc \in {"next", "done"} => control_stack = << >>

\* a function with an if nested in the then-arm of an if is translated:
\* two NOTs, each with operations before and after it in its arms
CondBrLinearizedWitness ==
    /\ tpc = "done"
    /\ Cardinality(Nots) = 2
    /\ \A n \in Nots : ThenOps(n) # {} /\ ElseOps(n) # {}
    /\ \E n \in Nots : DepthOf(n) = 1
    /\ control_stack = << >>

(***************************************************************************)
(* The dependency graphs: ssa_dag.build_dag and IRDependencyDAG.build      *)
(***************************************************************************)
\* g.add_node(name): a node added again is the node there is
add_node(g, node) ==
    IF \E n \in DOMAIN g.nodes : g.nodes[n] = node THEN g
    ELSE [g EXCEPT !.nodes = Append(@, node)]

\* g.add_edge(src, dst): a DiGraph keeps one edge between two nodes, a
\* MultiDiGraph adds a parallel edge
add_edge(g, src, dst) ==
    IF g.kind = "DiGraph" /\ \E e \in DOMAIN g.edges : g.edges[e] = <<src, dst>> THEN g
    ELSE [g EXCEPT !.edges = Append(@, <<src, dst>>)]

RECURSIVE AddOperandEdges(_, _, _, _)
\* for operand in op.operands: g.add_edge(<node of operand.owner>, <node of op>)
AddOperandEdges(g, ops, idx, k) ==
    IF k > Len(OpAt(ops, idx).operands) THEN g
    ELSE AddOperandEdges(add_edge(g, OpAt(ops, idx).operands[k], idx), ops, idx, k + 1)

RECURSIVE build_dag_from(_, _, _)
\* for idx, op in enumerate(ops): add_node, then the edges of its operands
build_dag_from(g, ops, idx) ==
    IF idx >= Len(ops) THEN g
    ELSE build_dag_from(AddOperandEdges(add_node(g, idx), ops, idx, 1), ops, idx + 1)

\* ssa_dag.build_dag(module): g = nx.DiGraph()
build_dag(ops) == build_dag_from([kind |-> "DiGraph", nodes |-> << >>, edges |-> << >>], ops, 0)

RECURSIVE AddNodes(_, _, _)
\* IRDependencyDAG.build, first loop: a node for every operation
AddNodes(g, ops, idx) ==
    IF idx >= Len(ops) THEN g ELSE AddNodes(add_node(g, idx), ops, idx + 1)

RECURSIVE AddEdges(_, _, _)
\* IRDependencyDAG.build, second loop: the edges of every operation
AddEdges(g, ops, idx) ==
    IF idx >= Len(ops) THEN g ELSE AddEdges(AddOperandEdges(g, ops, idx, 1), ops, idx + 1)

\* IRDependencyDAG(module).build(): self.graph = nx.MultiDiGraph()
build(ops) ==
    AddEdges(AddNodes([kind |-> "MultiDiGraph", nodes |-> << >>, edges |-> << >>], ops, 0),
             ops, 0)

\* the block is complete and no pass has started on it
ModuleBuilt == epc = "enforce" /\ pass_no = 1 /\ loop_idx = 0 /\ dag = NoGraph

GFrame == UNCHANGED <<bvars, evars, tvars, lvars>>

\* g = build_dag(module)
GBuildDag ==
    /\ ModuleBuilt
    /\ dag' = build_dag(orig_ops)
    /\ GFrame

\* dag = IRDependencyDAG(module); dag.build()
GBuild ==
    /\ ModuleBuilt
    /\ dag' = build(orig_ops)
    /\ GFrame

GStep == EBuildInit \/ EBuildBinary \/ EBuildImm \/ EBuildReturn \/ GBuildDag \/ GBuild

\* the operand-to-consumer relations of a block: (consumer, operand position)
OperandRelations(ops) ==
    {<<i, k>> : i \in Indices(ops), k \in 1 .. 2} \cap
    {ik \in Indices(ops) \X (1 .. 2) : ik[2] <= Len(OpAt(ops, ik[1]).operands)}

\* the edges of the graph from src to dst
EdgesBetween(g, src, dst) == {e \in DOMAIN g.edges : g.edges[e] = <<src, dst>>}

OneNodePerOperation(g, ops) ==
    /\ Len(g.nodes) = Len(ops)
    /\ \A i \in Indices(ops) : \E n \in DOMAIN g.nodes : g.nodes[n] = i

OneEdgePerOperand(g, ops) ==
    /\ Len(g.edges) = Cardinality(OperandRelations(ops))
    /\ \A i \in Indices(ops) :
          Len(OpAt(ops, i).operands) = 2 /\ OpAt(ops, i).operands[1] = OpAt(ops, i).operands[2]
              => Cardinality(EdgesBetween(g, OpAt(ops, i).operands[1], i)) = 2

\* C24: a dependency graph built of a block has one node for every operation
\* and one edge for every operand of every operation, two parallel edges for
\* an operation whose two operands have one producer.
DagOneEdgePerOperand ==
    dag # NoGraph => OneNodePerOperation(dag, orig_ops) /\ OneEdgePerOperand(dag, orig_ops)

\* the same, of the graphs IRDependencyDAG builds only
IRDagOneEdgePerOperand ==
    dag.kind = "MultiDiGraph" =>
        OneNodePerOperation(dag, orig_ops) /\ OneEdgePerOperand(dag, orig_ops)

(***************************************************************************)
(* The specifications: one per part of the compiler, the others at rest    *)
(***************************************************************************)
NoModule == << >>

BInit ==
    /\ BackendAt("start") /\ EnforceAt("off") /\ module = NoModule /\ later_funcs = << >>
    /\ program = NoProgram /\ GenerateAt("off") /\ TranslateAt("off")

SpecBackend == BInit /\ [][BStep]_vars

EInit ==
    /\ BackendAt("off") /\ EnforceAt("build") /\ module = NoModule /\ later_funcs = << >>
    /\ program = NoProgram /\ GenerateAt("off") /\ TranslateAt("off")

SpecEnforce == EInit /\ [][EStep]_vars

\* the enforcement pass on the blocks the translator emits
SpecEnforceTranslated == EInit /\ [][EStepTranslated]_vars

\* the dependency graphs of the blocks the enforcement pass is handed
SpecDag == EInit /\ [][GStep]_vars

CInit ==
    /\ ConfigureAt("configure") /\ EnforceAt("off") /\ module = NoModule /\ later_funcs = << >>
    /\ program = NoProgram /\ GenerateAt("off") /\ TranslateAt("off")

SpecConfigure == CInit /\ [][CStep]_vars

TInit ==
    /\ BackendAt("off")
    /\ EnforceAt("off")
    /\ module \in Programs
    /\ later_funcs \in LaterFunctions
    /\ TranslateAt("translate")
    /\ program = NoProgram /\ GenerateAt("off")

SpecTranslate == TInit /\ [][TStep]_vars

LInit ==
    /\ BackendAt("off") /\ EnforceAt("off") /\ module = NoModule /\ later_funcs = << >>
    /\ TranslateAt("off")
    /\ program \in Functions /\ GenerateAt("generate")

\* the generator and a run of the function it generated
SpecGenerate == LInit /\ [][LStep]_vars

\* the translator or the enforcement pass at work on one function
SpecCompile == (EInit \/ TInit) /\ [][EStep \/ TStep]_vars

====
